---- MODULE Spec2Model ----
(***************************************************************************)
(* A model of the adaptive form-filling core of Auto_Job_Applier_LinkedIn: *)
(* the retry handler (modules/retry_handler.py), the field knowledge base  *)
(* (modules/external/field_knowledge_base.py) and the field classifier     *)
(* (modules/external/universal_form_filler.py, greenhouse_handler.py), the *)
(* platform detector (modules/external/ats_detector.py), the checkpoint    *)
(* store (modules/session_manager.py), the smart filter                    *)
(* (modules/smart_filter.py, modules/smart_filters.py), the CSV logs       *)
(* (modules/external/external_links_manager.py, modules/metrics.py), the   *)
(* pre-flight checks (modules/preflight_checks.py), the connection tracker *)
(* (modules/connection_tracker.py), the AI response cache                  *)
(* (modules/ai/ai_cache.py) and the analytics (modules/analytics.py).      *)
(* Each component has its own specification over the shared variables.    *)
(***************************************************************************)
EXTENDS Integers, Sequences, FiniteSets, TLC

VARIABLES
    rwb,        \* the frame of the running retry_with_backoff call
    rc,         \* the frame of the running retry_click call
    knowledge,  \* FieldKnowledgeBase.knowledge, the dictionary in memory
    disk,       \* the content of the file kb_file
    last,       \* the latest call on the knowledge base, with what it returned
    fill,       \* the frame of the running fill_greenhouse_application call
    detection,  \* the latest detect_ats_platform call, with what it returned
    submit,     \* the frame of the running submit_greenhouse_application call
    checkpoint_file,  \* the content of the file CHECKPOINT_FILE
    now,        \* datetime.now(), in hours
    session,    \* the latest call on the checkpoint store, with what it returned
    viewed_jobs,              \* SmartFilter.viewed_jobs
    viewed_jobs_file,         \* the content of the file viewed_jobs_file
    rejected_companies,       \* SmartFilter.rejected_companies
    rejected_companies_file,  \* the content of the file rejected_companies_file
    smart_filter,  \* the latest call on the SmartFilter, with what it returned
    priority,      \* the latest calculate_job_priority call, with its arguments
    applicants,    \* the latest extract_applicant_count call at either site
    links_file,    \* the rows of the file ExternalLinksManager.links_file
    metrics_file,  \* the rows of the file MetricsTracker.metrics_file
    csv,           \* the latest call that appends to a CSV log, and their count
    preflight,     \* the latest run_all_checks call, with what it returned
    classified,    \* the latest detect_field_type call, with what it returned
    tracker,       \* the ConnectionTracker, its file and its latest call
    cache,         \* the file AI_CACHE_FILE and the latest call on it
    analytics      \* the Analytics store, its file and its latest call

retryVars == <<rwb, rc>>
kbVars == <<knowledge, disk, last>>
fillVars == <<fill>>
atsVars == <<detection>>
submitVars == <<submit>>
sessionVars == <<checkpoint_file, now, session>>
filterVars == <<viewed_jobs, viewed_jobs_file, rejected_companies,
                rejected_companies_file, smart_filter>>
priorityVars == <<priority>>
applicantVars == <<applicants>>
csvVars == <<links_file, metrics_file, csv>>
preflightVars == <<preflight>>
earlyStoreVars ==
    <<filterVars, priorityVars, applicantVars, csvVars, preflightVars>>
lateVars == <<classified, tracker, cache, analytics>>
storeVars == <<earlyStoreVars, lateVars>>
vars == <<rwb, rc, knowledge, disk, last, fill, detection, submit,
          checkpoint_file, now, session, viewed_jobs, viewed_jobs_file,
          rejected_companies, rejected_companies_file, smart_filter, priority,
          applicants, links_file, metrics_file, csv, preflight, classified,
          tracker, cache, analytics>>

(***************************************************************************)
(* modules/external/field_knowledge_base.py                                *)
(***************************************************************************)

\* Bound of the knowledge-base model: the learn_field_mapping calls recorded
\* in memory.
MaxLearned == 4

KbIdentifiers == {"q_17", "fname"}
KbTypes == {"first_name", "email"}
\* The platforms taught, and the platforms asked about.
Platforms == {"greenhouse"}
AskedPlatforms == {"greenhouse", "lever"}
None == "None"

\* A Python dict keeps its keys in insertion order: the inner dictionaries of
\* field_mappings are sequences of <<key, value>> pairs, the others functions.
Keys(d) == {d[i][1] : i \in 1 .. Len(d)}
Value(d, key) == LET i == CHOOSE i \in 1 .. Len(d) : d[i][1] = key IN d[i][2]
Put(d, key, v) ==
    IF key \in Keys(d)
    THEN [i \in 1 .. Len(d) |-> IF d[i][1] = key THEN <<key, v>> ELSE d[i]]
    ELSE Append(d, <<key, v>>)
Extend(f, key, v) == [x \in DOMAIN f \cup {key} |-> IF x = key THEN v ELSE f[x]]
EmptyDict == [x \in {} |-> None]

\* The dictionary _load_knowledge returns when there is nothing to load
\* (lines 36-40).
DefaultKnowledge ==
    [field_mappings |-> EmptyDict, successful_patterns |-> EmptyDict,
     ats_specific_mappings |-> EmptyDict]

\* The file kb_file: missing, holding the JSON of a dictionary, or corrupt
\* (cut short by a write that failed).
MissingFile == [state |-> "missing", json |-> DefaultKnowledge]
CorruptFile == [state |-> "corrupt", json |-> DefaultKnowledge]

\* _load_knowledge: the file's dictionary, or the default one when the file is
\* missing or reading or parsing it raises.
_load_knowledge(file, read_fails) ==
    IF file.state \in {"missing", "corrupt"} \/ read_fails
    THEN DefaultKnowledge ELSE file.json

\* _save_knowledge: the file after the attempt to write k. The exception of a
\* failed write is swallowed (line 47): open() that fails leaves the file as it
\* was, a dump that fails leaves the file truncated.
_save_knowledge(file, k, outcome) ==
    CASE outcome = "written" -> [state |-> "json", json |-> k]
      [] outcome = "open_fails" -> file
      [] outcome = "dump_fails" -> CorruptFile
SaveOutcomes == {"written", "open_fails", "dump_fails"}

\* A general mapping that forgets what was taught for the identifier before.
LearnGeneralAnew(fm, field_identifier, field_type) ==
    Extend(fm, field_identifier, <<<<field_type, 1>>>>)

\* The general mapping after lines 64-71.
LearnGeneral(fm, field_identifier, field_type) ==
    LET fm1 == IF field_identifier \notin DOMAIN fm
               THEN Extend(fm, field_identifier, <<>>) ELSE fm
        m1 == IF field_type \notin Keys(fm1[field_identifier])
              THEN Put(fm1[field_identifier], field_type, 0)
              ELSE fm1[field_identifier]
    IN  [fm1 EXCEPT ![field_identifier] = Put(m1, field_type, Value(m1, field_type) + 1)]

\* The platform mapping after lines 74-79, for a platform other than "unknown":
\* the type is stored when the platform has none yet for the identifier.
LearnFirst(ats, field_identifier, field_type, ats_platform) ==
    LET a1 == IF ats_platform \notin DOMAIN ats
              THEN Extend(ats, ats_platform, EmptyDict) ELSE ats
    IN  IF field_identifier \notin DOMAIN a1[ats_platform]
        THEN [a1 EXCEPT ![ats_platform] = Extend(@, field_identifier, field_type)]
        ELSE a1

\* A platform mapping that the latest call overwrites.
LearnLatest(ats, field_identifier, field_type, ats_platform) ==
    LET a1 == IF ats_platform \notin DOMAIN ats
              THEN Extend(ats, ats_platform, EmptyDict) ELSE ats
    IN  [a1 EXCEPT ![ats_platform] = Extend(@, field_identifier, field_type)]

LearnSpecific(ats, field_identifier, field_type, ats_platform) ==
    LearnFirst(ats, field_identifier, field_type, ats_platform)

\* self.knowledge after learn_field_mapping (lines 62-79).
Learned(k, field_identifier, field_type, ats_platform) ==
    [k EXCEPT
       !.field_mappings = LearnGeneral(@, field_identifier, field_type),
       !.ats_specific_mappings =
           IF ats_platform # "unknown"
           THEN LearnSpecific(@, field_identifier, field_type, ats_platform)
           ELSE @]

\* The last key of maximal value.
RECURSIVE MaxFromLast(_, _, _)
MaxFromLast(d, i, best) ==
    IF i > Len(d) THEN d[best][1]
    ELSE MaxFromLast(d, i + 1, IF d[i][2] >= d[best][2] THEN i ELSE best)
MaxKeyLast(d) == MaxFromLast(d, 2, 1)

\* max(mappings, key=mappings.get): the first key, in iteration order, whose
\* value no other key's value exceeds.
RECURSIVE MaxFrom(_, _, _)
MaxFrom(d, i, best) ==
    IF i > Len(d) THEN d[best][1]
    ELSE MaxFrom(d, i + 1, IF d[i][2] > d[best][2] THEN i ELSE best)
MaxKey(d) == MaxFrom(d, 2, 1)

\* Lines 98-105 of get_field_type: the general lookup.
GeneralType(k, field_identifier) ==
    IF field_identifier \in DOMAIN k.field_mappings
       /\ k.field_mappings[field_identifier] # <<>>
    THEN MaxKey(k.field_mappings[field_identifier])
    ELSE None

\* A lookup that asks the general mapping before the platform's.
GeneralFirst(k, field_identifier, ats_platform) ==
    IF GeneralType(k, field_identifier) # None
    THEN GeneralType(k, field_identifier)
    ELSE IF /\ ats_platform # "unknown"
            /\ ats_platform \in DOMAIN k.ats_specific_mappings
            /\ field_identifier \in DOMAIN k.ats_specific_mappings[ats_platform]
    THEN k.ats_specific_mappings[ats_platform][field_identifier]
    ELSE None

\* get_field_type (lines 87-109).
get_field_type(k, field_identifier, ats_platform) ==
    IF /\ ats_platform # "unknown"
       /\ ats_platform \in DOMAIN k.ats_specific_mappings
       /\ field_identifier \in DOMAIN k.ats_specific_mappings[ats_platform]
    THEN k.ats_specific_mappings[ats_platform][field_identifier]
    ELSE GeneralType(k, field_identifier)

\* The number of learn_field_mapping calls a dictionary records.
RECURSIVE SumValues(_, _)
SumValues(d, i) == IF i > Len(d) THEN 0 ELSE d[i][2] + SumValues(d, i + 1)
RECURSIVE SumOver(_, _)
SumOver(fm, ids) ==
    IF ids = {} THEN 0
    ELSE LET id == CHOOSE x \in ids : TRUE
         IN  SumValues(fm[id], 1) + SumOver(fm, ids \ {id})
TotalLearned(k) == SumOver(k.field_mappings, DOMAIN k.field_mappings)

NoCall == [op |-> "none", field_identifier |-> None, field_type |-> None,
           ats_platform |-> None, ret |-> None, save |-> None]

\* __init__ with no file yet (lines 20-23).
InitKB ==
    /\ disk = MissingFile
    /\ knowledge = _load_knowledge(disk, FALSE)
    /\ last = NoCall

\* learn_field_mapping, with the write of _save_knowledge it ends with.
learn_field_mapping ==
    /\ TotalLearned(knowledge) < MaxLearned
    /\ \E id \in KbIdentifiers, t \in KbTypes, p \in Platforms \cup {"unknown"},
          outcome \in SaveOutcomes :
        /\ knowledge' = Learned(knowledge, id, t, p)
        /\ disk' = _save_knowledge(disk, knowledge', outcome)
        /\ last' = [op |-> "learn", field_identifier |-> id, field_type |-> t,
                    ats_platform |-> p, ret |-> None, save |-> outcome]
    /\ UNCHANGED <<storeVars, retryVars, fillVars, atsVars, submitVars, sessionVars>>

\* A call of get_field_type.
lookup_field_type ==
    /\ \E id \in KbIdentifiers, p \in AskedPlatforms \cup {"unknown"} :
        last' = [op |-> "get", field_identifier |-> id, field_type |-> None,
                 ats_platform |-> p, ret |-> get_field_type(knowledge, id, p),
                 save |-> None]
    /\ UNCHANGED <<storeVars, knowledge, disk, retryVars, fillVars, atsVars, submitVars,
                   sessionVars>>

NextKB == learn_field_mapping \/ lookup_field_type

(***************************************************************************)
(* modules/external/universal_form_filler.py, greenhouse_handler.py        *)
(***************************************************************************)

\* Bound of the form model: the input fields find_elements returns.
MaxFields == 2

\* STANDARD_FIELD_PATTERNS (lines 20-50), in the order of the dictionary; every
\* pattern is the sequence of its characters.
STANDARD_FIELD_PATTERNS ==
    <<
      <<"first_name", <<
          <<"f", "i", "r", "s", "t", "_", "n", "a", "m", "e">>,  \* first_name
          <<"f", "i", "r", "s", "t", "n", "a", "m", "e">>,  \* firstname
          <<"f", "n", "a", "m", "e">>,  \* fname
          <<"g", "i", "v", "e", "n", "_", "n", "a", "m", "e">>,  \* given_name
          <<"f", "o", "r", "e", "n", "a", "m", "e">>,  \* forename
          <<"f", "i", "r", "s", "t", " ", "n", "a", "m", "e">>,  \* first name
          <<"g", "i", "v", "e", "n", " ", "n", "a", "m", "e">>  \* given name
      >> >>,
      <<"last_name", <<
          <<"l", "a", "s", "t", "_", "n", "a", "m", "e">>,  \* last_name
          <<"l", "a", "s", "t", "n", "a", "m", "e">>,  \* lastname
          <<"l", "n", "a", "m", "e">>,  \* lname
          <<"s", "u", "r", "n", "a", "m", "e">>,  \* surname
          <<"f", "a", "m", "i", "l", "y", "_", "n", "a", "m", "e">>,  \* family_name
          <<"l", "a", "s", "t", " ", "n", "a", "m", "e">>,  \* last name
          <<"f", "a", "m", "i", "l", "y", " ", "n", "a", "m", "e">>  \* family name
      >> >>,
      <<"full_name", <<
          <<"f", "u", "l", "l", "_", "n", "a", "m", "e">>,  \* full_name
          <<"f", "u", "l", "l", "n", "a", "m", "e">>,  \* fullname
          <<"n", "a", "m", "e">>,  \* name
          <<"y", "o", "u", "r", "_", "n", "a", "m", "e">>,  \* your_name
          <<"a", "p", "p", "l", "i", "c", "a", "n", "t", "_", "n", "a", "m", "e">>,  \* applicant_name
          <<"f", "u", "l", "l", " ", "n", "a", "m", "e">>,  \* full name
          <<"y", "o", "u", "r", " ", "n", "a", "m", "e">>  \* your name
      >> >>,
      <<"email", <<
          <<"e", "m", "a", "i", "l">>,  \* email
          <<"e", "m", "a", "i", "l", "_", "a", "d", "d", "r", "e", "s", "s">>,  \* email_address
          <<"e", "_", "m", "a", "i", "l">>,  \* e_mail
          <<"m", "a", "i", "l">>,  \* mail
          <<"c", "o", "n", "t", "a", "c", "t", "_", "e", "m", "a", "i", "l">>,  \* contact_email
          <<"e", "m", "a", "i", "l", " ", "a", "d", "d", "r", "e", "s", "s">>,  \* email address
          <<"e", "-", "m", "a", "i", "l">>  \* e-mail
      >> >>,
      <<"phone", <<
          <<"p", "h", "o", "n", "e">>,  \* phone
          <<"p", "h", "o", "n", "e", "_", "n", "u", "m", "b", "e", "r">>,  \* phone_number
          <<"m", "o", "b", "i", "l", "e">>,  \* mobile
          <<"t", "e", "l", "e", "p", "h", "o", "n", "e">>,  \* telephone
          <<"c", "o", "n", "t", "a", "c", "t", "_", "n", "u", "m", "b", "e", "r">>,  \* contact_number
          <<"p", "h", "o", "n", "e", " ", "n", "u", "m", "b", "e", "r">>,  \* phone number
          <<"m", "o", "b", "i", "l", "e", " ", "n", "u", "m", "b", "e", "r">>,  \* mobile number
          <<"t", "e", "l">>  \* tel
      >> >>,
      <<"linkedin", <<
          <<"l", "i", "n", "k", "e", "d", "i", "n">>,  \* linkedin
          <<"l", "i", "n", "k", "e", "d", "i", "n", "_", "u", "r", "l">>,  \* linkedin_url
          <<"l", "i", "n", "k", "e", "d", "i", "n", "_", "p", "r", "o", "f", "i", "l", "e">>,  \* linkedin_profile
          <<"l", "i", "n", "k", "e", "d", "i", "n", " ", "u", "r", "l">>  \* linkedin url
      >> >>,
      <<"website", <<
          <<"w", "e", "b", "s", "i", "t", "e">>,  \* website
          <<"p", "o", "r", "t", "f", "o", "l", "i", "o">>,  \* portfolio
          <<"p", "e", "r", "s", "o", "n", "a", "l", "_", "w", "e", "b", "s", "i", "t", "e">>,  \* personal_website
          <<"u", "r", "l">>,  \* url
          <<"h", "o", "m", "e", "p", "a", "g", "e">>  \* homepage
      >> >>,
      <<"github", <<
          <<"g", "i", "t", "h", "u", "b">>,  \* github
          <<"g", "i", "t", "h", "u", "b", "_", "u", "r", "l">>,  \* github_url
          <<"g", "i", "t", "h", "u", "b", "_", "u", "s", "e", "r", "n", "a", "m", "e">>  \* github_username
      >> >>
    >>

\* The characters of the strings the model works on.
Chars ==
       "" :> <<>>
    @@ "q_17" :> <<"q", "_", "1", "7">>
    @@ "fname" :> <<"f", "n", "a", "m", "e">>
    @@ "github_username" :> <<"g", "i", "t", "h", "u", "b", "_", "u", "s", "e", "r", "n", "a", "m", "e">>
    @@ "Email" :> <<"E", "m", "a", "i", "l">>
    @@ "first" :> <<"f", "i", "r", "s", "t">>
    @@ "name" :> <<"n", "a", "m", "e">>
    @@ "Tel" :> <<"T", "e", "l">>
    @@ "First name" :> <<"F", "i", "r", "s", "t", " ", "n", "a", "m", "e">>
    @@ "LinkedIn URL" :> <<"L", "i", "n", "k", "e", "d", "I", "n", " ", "U", "R", "L">>
    @@ " Email\n" :> <<" ", "E", "m", "a", "i", "l", "\n">>
    @@ "phone" :> <<"p", "h", "o", "n", "e">>
    @@ "Probably a phone number" :> <<"P", "r", "o", "b", "a", "b", "l", "y", " ", "a", " ", "p", "h", "o", "n", "e", " ", "n", "u", "m", "b", "e", "r">>
    @@ "email" :> <<"e", "m", "a", "i", "l">>
    @@ "probably a phone number" :> <<"p", "r", "o", "b", "a", "b", "l", "y", " ", "a", " ", "p", "h", "o", "n", "e", " ", "n", "u", "m", "b", "e", "r">>
    @@ "https://boards.greenhouse.io/acme/jobs/17" :> <<"h", "t", "t", "p", "s", ":", "/", "/", "b", "o", "a", "r", "d", "s", ".", "g", "r", "e", "e", "n", "h", "o", "u", "s", "e", ".", "i", "o", "/", "a", "c", "m", "e", "/", "j", "o", "b", "s", "/", "1", "7">>
    @@ "https://JOBS.LEVER.CO/acme" :> <<"h", "t", "t", "p", "s", ":", "/", "/", "J", "O", "B", "S", ".", "L", "E", "V", "E", "R", ".", "C", "O", "/", "a", "c", "m", "e">>
    @@ "https://acme.com/careers" :> <<"h", "t", "t", "p", "s", ":", "/", "/", "a", "c", "m", "e", ".", "c", "o", "m", "/", "c", "a", "r", "e", "e", "r", "s">>
    @@ "https://jobs.lever.co/x?ref=greenhouse.io" :> <<"h", "t", "t", "p", "s", ":", "/", "/", "j", "o", "b", "s", ".", "l", "e", "v", "e", "r", ".", "c", "o", "/", "x", "?", "r", "e", "f", "=", "g", "r", "e", "e", "n", "h", "o", "u", "s", "e", ".", "i", "o">>
    @@ "https://acme.icims.com/jobs" :> <<"h", "t", "t", "p", "s", ":", "/", "/", "a", "c", "m", "e", ".", "i", "c", "i", "m", "s", ".", "c", "o", "m", "/", "j", "o", "b", "s">>
    @@ "<h1>Thank You!</h1>" :> <<"<", "h", "1", ">", "T", "h", "a", "n", "k", " ", "Y", "o", "u", "!", "<", "/", "h", "1", ">">>
    @@ "Application Submitted" :> <<"A", "p", "p", "l", "i", "c", "a", "t", "i", "o", "n", " ", "S", "u", "b", "m", "i", "t", "t", "e", "d">>
    @@ "Please fix the errors below" :> <<"P", "l", "e", "a", "s", "e", " ", "f", "i", "x", " ", "t", "h", "e", " ", "e", "r", "r", "o", "r", "s", " ", "b", "e", "l", "o", "w">>
    @@ "<html></html>" :> <<"<", "h", "t", "m", "l", ">", "<", "/", "h", "t", "m", "l", ">">>
    @@ "first_name" :> <<"f", "i", "r", "s", "t", "_", "n", "a", "m", "e">>
    @@ "firstname" :> <<"f", "i", "r", "s", "t", "n", "a", "m", "e">>
    @@ "given_name" :> <<"g", "i", "v", "e", "n", "_", "n", "a", "m", "e">>
    @@ "forename" :> <<"f", "o", "r", "e", "n", "a", "m", "e">>
    @@ "first name" :> <<"f", "i", "r", "s", "t", " ", "n", "a", "m", "e">>
    @@ "given name" :> <<"g", "i", "v", "e", "n", " ", "n", "a", "m", "e">>
    @@ "last_name" :> <<"l", "a", "s", "t", "_", "n", "a", "m", "e">>
    @@ "lastname" :> <<"l", "a", "s", "t", "n", "a", "m", "e">>
    @@ "lname" :> <<"l", "n", "a", "m", "e">>
    @@ "surname" :> <<"s", "u", "r", "n", "a", "m", "e">>
    @@ "family_name" :> <<"f", "a", "m", "i", "l", "y", "_", "n", "a", "m", "e">>
    @@ "last name" :> <<"l", "a", "s", "t", " ", "n", "a", "m", "e">>
    @@ "family name" :> <<"f", "a", "m", "i", "l", "y", " ", "n", "a", "m", "e">>
    @@ "full_name" :> <<"f", "u", "l", "l", "_", "n", "a", "m", "e">>
    @@ "fullname" :> <<"f", "u", "l", "l", "n", "a", "m", "e">>
    @@ "your_name" :> <<"y", "o", "u", "r", "_", "n", "a", "m", "e">>
    @@ "applicant_name" :> <<"a", "p", "p", "l", "i", "c", "a", "n", "t", "_", "n", "a", "m", "e">>
    @@ "full name" :> <<"f", "u", "l", "l", " ", "n", "a", "m", "e">>
    @@ "your name" :> <<"y", "o", "u", "r", " ", "n", "a", "m", "e">>
    @@ "email_address" :> <<"e", "m", "a", "i", "l", "_", "a", "d", "d", "r", "e", "s", "s">>
    @@ "e_mail" :> <<"e", "_", "m", "a", "i", "l">>
    @@ "mail" :> <<"m", "a", "i", "l">>
    @@ "contact_email" :> <<"c", "o", "n", "t", "a", "c", "t", "_", "e", "m", "a", "i", "l">>
    @@ "email address" :> <<"e", "m", "a", "i", "l", " ", "a", "d", "d", "r", "e", "s", "s">>
    @@ "e-mail" :> <<"e", "-", "m", "a", "i", "l">>
    @@ "phone_number" :> <<"p", "h", "o", "n", "e", "_", "n", "u", "m", "b", "e", "r">>
    @@ "mobile" :> <<"m", "o", "b", "i", "l", "e">>
    @@ "telephone" :> <<"t", "e", "l", "e", "p", "h", "o", "n", "e">>
    @@ "contact_number" :> <<"c", "o", "n", "t", "a", "c", "t", "_", "n", "u", "m", "b", "e", "r">>
    @@ "phone number" :> <<"p", "h", "o", "n", "e", " ", "n", "u", "m", "b", "e", "r">>
    @@ "mobile number" :> <<"m", "o", "b", "i", "l", "e", " ", "n", "u", "m", "b", "e", "r">>
    @@ "tel" :> <<"t", "e", "l">>
    @@ "linkedin" :> <<"l", "i", "n", "k", "e", "d", "i", "n">>
    @@ "linkedin_url" :> <<"l", "i", "n", "k", "e", "d", "i", "n", "_", "u", "r", "l">>
    @@ "linkedin_profile" :> <<"l", "i", "n", "k", "e", "d", "i", "n", "_", "p", "r", "o", "f", "i", "l", "e">>
    @@ "linkedin url" :> <<"l", "i", "n", "k", "e", "d", "i", "n", " ", "u", "r", "l">>
    @@ "website" :> <<"w", "e", "b", "s", "i", "t", "e">>
    @@ "portfolio" :> <<"p", "o", "r", "t", "f", "o", "l", "i", "o">>
    @@ "personal_website" :> <<"p", "e", "r", "s", "o", "n", "a", "l", "_", "w", "e", "b", "s", "i", "t", "e">>
    @@ "url" :> <<"u", "r", "l">>
    @@ "homepage" :> <<"h", "o", "m", "e", "p", "a", "g", "e">>
    @@ "github" :> <<"g", "i", "t", "h", "u", "b">>
    @@ "github_url" :> <<"g", "i", "t", "h", "u", "b", "_", "u", "r", "l">>

\* str.lower() on the characters that occur.
LowerChar(c) ==
    CASE c = "A" -> "a"
      [] c = "B" -> "b"
      [] c = "C" -> "c"
      [] c = "E" -> "e"
      [] c = "F" -> "f"
      [] c = "I" -> "i"
      [] c = "J" -> "j"
      [] c = "L" -> "l"
      [] c = "O" -> "o"
      [] c = "P" -> "p"
      [] c = "R" -> "r"
      [] c = "S" -> "s"
      [] c = "T" -> "t"
      [] c = "U" -> "u"
      [] c = "V" -> "v"
      [] c = "Y" -> "y"
      [] OTHER -> c

Lower(s) == [i \in 1 .. Len(s) |-> LowerChar(s[i])]

\* str.strip(): without the whitespace at either end.
Whitespace == {" ", "\n"}
RECURSIVE LStrip(_)
LStrip(s) == IF s # <<>> /\ Head(s) \in Whitespace THEN LStrip(Tail(s)) ELSE s
RECURSIVE RStrip(_)
RStrip(s) ==
    IF s # <<>> /\ s[Len(s)] \in Whitespace
    THEN RStrip(SubSeq(s, 1, Len(s) - 1)) ELSE s
Strip(s) == RStrip(LStrip(s))

\* The string of the given characters.
Text(cs) == CHOOSE s \in DOMAIN Chars : Chars[s] = cs

\* `pattern in combined_text`: the pattern starts at some place of the text.
RECURSIVE MatchesAt(_, _, _, _)
MatchesAt(pattern, text, at, j) ==
    \/ j > Len(pattern)
    \/ /\ at + j - 1 <= Len(text)
       /\ text[at + j - 1] = pattern[j]
       /\ MatchesAt(pattern, text, at, j + 1)
Occurs(pattern, text) == \E at \in 1 .. Len(text) + 1 : MatchesAt(pattern, text, at, 1)

\* The input fields of the page: the attributes name, id and placeholder and
\* the text of the preceding label ("" when there is none).
Fields ==
    { [name |-> "q_17", id |-> "", placeholder |-> "", label |-> "First name"],
      [name |-> "q_17", id |-> "Email", placeholder |-> "", label |-> ""],
      [name |-> "", id |-> "q_17", placeholder |-> "", label |-> ""],
      [name |-> "", id |-> "", placeholder |-> "", label |-> ""],
      [name |-> "github_username", id |-> "", placeholder |-> "", label |-> ""],
      [name |-> "Email", id |-> "fname", placeholder |-> "", label |-> ""],
      [name |-> "first", id |-> "name", placeholder |-> "", label |-> ""],
      [name |-> "", id |-> "q_17", placeholder |-> "Tel", label |-> "LinkedIn URL"],
      [name |-> "", id |-> "", placeholder |-> "", label |-> "First name"] }

\* f"{field_name} {field_id} {field_placeholder} {label_text}".lower() (line 107).
combined_text(field) ==
    Lower(Chars[field.name] \o <<" ">> \o Chars[field.id] \o <<" ">>
          \o Chars[field.placeholder] \o <<" ">> \o Chars[field.label])

\* The loops of lines 119-122 from the table entry t and its pattern j on.
RECURSIVE PatternFrom(_, _, _)
PatternFrom(text, t, j) ==
    IF t > Len(STANDARD_FIELD_PATTERNS) THEN "unknown"
    ELSE IF j > Len(STANDARD_FIELD_PATTERNS[t][2]) THEN PatternFrom(text, t + 1, 1)
    ELSE IF Occurs(STANDARD_FIELD_PATTERNS[t][2][j], text)
    THEN STANDARD_FIELD_PATTERNS[t][1]
    ELSE PatternFrom(text, t, j + 1)

\* A pattern loop that keeps the last type that matched.
RECURSIVE PatternFromBack(_, _)
PatternFromBack(text, t) ==
    IF t = 0 THEN "unknown"
    ELSE IF \E j \in 1 .. Len(STANDARD_FIELD_PATTERNS[t][2]) :
               Occurs(STANDARD_FIELD_PATTERNS[t][2][j], text)
    THEN STANDARD_FIELD_PATTERNS[t][1]
    ELSE PatternFromBack(text, t - 1)
PatternTypeLast(text) == PatternFromBack(text, Len(STANDARD_FIELD_PATTERNS))

\* Pattern matching (lines 118-124).
PatternType(text) == PatternFrom(text, 1, 1)

\* A field that has both a name and an id, and the fields that have only
\* one of the two: the fields detect_field_type is called on by itself.
TaughtFields ==
    { [name |-> "q_17", id |-> "fname", placeholder |-> "", label |-> ""],
      [name |-> "q_17", id |-> "", placeholder |-> "", label |-> ""],
      [name |-> "", id |-> "fname", placeholder |-> "", label |-> ""] }

\* The places <<t, j>> of the patterns in STANDARD_FIELD_PATTERNS.
PatternPlaces ==
    UNION { { <<t, j>> : j \in 1 .. Len(STANDARD_FIELD_PATTERNS[t][2]) } :
            t \in 1 .. Len(STANDARD_FIELD_PATTERNS) }

\* The field whose only text is the pattern at a place of the table, as its
\* name: id and placeholder are empty and no label precedes it.
PatternField(place) ==
    [name |-> Text(STANDARD_FIELD_PATTERNS[place[1]][2][place[2]]), id |-> "",
     placeholder |-> "", label |-> ""]
PatternFields == { PatternField(place) : place \in PatternPlaces }

\* The outcome of pattern matching for every field of the page, worked out once.
PatternTypeOf ==
    [f \in Fields \cup TaughtFields \cup PatternFields |->
        PatternType(combined_text(f))]

\* The knowledge-base lookup of lines 110-116: the first of name and id that
\* is not empty and that the knowledge base has a type for.
KnownType(has_kb, k, field, ats_platform) ==
    IF ~has_kb THEN None
    ELSE IF field.name # "" /\ get_field_type(k, field.name, ats_platform) # None
    THEN get_field_type(k, field.name, ats_platform)
    ELSE IF field.id # "" /\ get_field_type(k, field.id, ats_platform) # None
    THEN get_field_type(k, field.id, ats_platform)
    ELSE None

\* A classifier that asks the pattern table first, as the docstring has it.
PatternsFirst(field, stale, has_kb, k, ats_platform) ==
    IF stale THEN "unknown"
    ELSE IF PatternTypeOf[field] # "unknown"
    THEN PatternTypeOf[field]
    ELSE IF KnownType(has_kb, k, field, ats_platform) # None
    THEN KnownType(has_kb, k, field, ats_platform)
    ELSE "unknown"

\* detect_field_type (lines 87-128). A stale element raises on get_attribute,
\* which line 126 turns into "unknown".
detect_field_type(field, stale, has_kb, k, ats_platform) ==
    IF stale THEN "unknown"
    ELSE IF KnownType(has_kb, k, field, ats_platform) # None
    THEN KnownType(has_kb, k, field, ats_platform)
    ELSE PatternTypeOf[field]

\* What the Gemini call gives: a response text, or an exception.
GeminiReplies == {" Email\n", "phone", "Probably a phone number", "raises"}

\* classify_field_with_gemini (lines 53-84).
classify_field_with_gemini(reply) ==
    IF reply = "raises" THEN "unknown"
    ELSE Text(Lower(Strip(Chars[reply])))

\* The outcome of the classification for every reply, worked out once.
GeminiTypeOf == [reply \in GeminiReplies |-> classify_field_with_gemini(reply)]

\* The categories the prompt asks the model to choose from (line 71).
GeminiCategories ==
    {"first_name", "last_name", "full_name", "email", "phone", "linkedin",
     "website", "github", "address", "city", "state", "zip", "country",
     "resume", "cover_letter", "unknown"}

\* user_data: the applicant's profile data, with one value that is empty.
user_data ==
    [first_name |-> "Ada", email |-> "ada@example.org", phone |-> "5550100",
     full_name |-> ""]

\* user_data.get(field_type, '') (line 137).
UserValue(field_type) ==
    IF field_type \in DOMAIN user_data THEN user_data[field_type] ELSE ""

\* The field types with a value that is not empty (`not value`, line 138).
UserData == {t \in DOMAIN user_data : user_data[t] # ""}

\* A fill_field that clears the field before it looks the value up.
fill_field_clearing_first(field_type, stale, keys_fail) ==
    [ret |-> UserValue(field_type) # "" /\ ~(stale \/ keys_fail),
     cleared |-> ~stale,
     typed |-> UserValue(field_type) # "" /\ ~(stale \/ keys_fail)]

\* fill_field (lines 131-152): what it returns, and whether it cleared the
\* field (line 143) and typed into it (line 146). It returns True when there
\* is a value and clear() and send_keys() do not raise.
fill_field(field_type, stale, keys_fail) ==
    IF UserValue(field_type) = ""
    THEN [ret |-> FALSE, cleared |-> FALSE, typed |-> FALSE]
    ELSE [ret |-> ~(stale \/ keys_fail), cleared |-> ~stale,
          typed |-> ~(stale \/ keys_fail)]

\* A feedback that knows a field by its name attribute only.
learned_by_name_only(field, name_fail) ==
    IF name_fail \/ field.name = "" THEN None ELSE field.name

\* The identifier of lines 72-73, `name or id`: None when both are empty, or
\* when reading the attributes raises (which line 76 catches).
learned_field_name(field, name_fail) ==
    IF name_fail THEN None
    ELSE IF field.name # "" THEN field.name
    ELSE IF field.id # "" THEN field.id
    ELSE None

NoStep == [field |-> [name |-> "", id |-> "", placeholder |-> "", label |-> ""],
           stale |-> FALSE, known |-> None, detected |-> None,
           ai_called |-> FALSE, field_type |-> None, fill_called |-> FALSE,
           cleared |-> FALSE, typed |-> FALSE, filled |-> FALSE,
           learned |-> None, raised |-> FALSE]

\* An upload that starts with the scripted drag-and-drop.
upload_drag_drop_first(direct_ok, script_ok, drop_ok) ==
    IF script_ok /\ drop_ok
    THEN [called |-> TRUE, attempts |-> <<<<"drag_drop", TRUE>>>>, ret |-> TRUE]
    ELSE [called |-> TRUE,
          attempts |-> <<<<"drag_drop", FALSE>>, <<"direct", direct_ok>>>>,
          ret |-> direct_ok]

\* upload_file_drag_drop (lines 155-206): the uploads attempted, each with
\* whether it succeeded, and the value returned. The direct upload is
\* file_input.send_keys (line 162); the drag-and-drop is execute_script
\* (line 199) and send_keys on the element it gives (line 200).
upload_file_drag_drop(direct_ok, script_ok, drop_ok) ==
    IF direct_ok
    THEN [called |-> TRUE, attempts |-> <<<<"direct", TRUE>>>>, ret |-> TRUE]
    ELSE [called |-> TRUE,
          attempts |-> <<<<"direct", FALSE>>,
                         <<"drag_drop", script_ok /\ drop_ok>>>>,
          ret |-> script_ok /\ drop_ok]

NoUpload == [called |-> FALSE, attempts |-> <<>>, ret |-> FALSE]

\* submit_selectors of fill_greenhouse_application (greenhouse_handler.py,
\* lines 95-102).
fill_submit_selectors ==
    <<"button[type=\"submit\"]", "input[type=\"submit\"]",
      "button[id*=\"submit\"]", "button[class*=\"submit\"]",
      "button:contains(\"Submit\")", "button:contains(\"Apply\")">>

\* :contains is no CSS selector: find_element raises on it.
InvalidSelectors ==
    {"button:contains(\"Submit\")", "button:contains(\"Apply\")"}

\* What lines 106-107 can meet for every selector: no element, an element, or
\* an element whose text cannot be read (it went stale); an invalid selector
\* always raises.
SubmitPages ==
    {page \in [DOMAIN fill_submit_selectors -> {"absent", "found", "stale", "invalid"}] :
        \A i \in DOMAIN fill_submit_selectors :
            page[i] = "invalid" <=> fill_submit_selectors[i] \in InvalidSelectors}

\* Whether find_element gave an element for some selector before the search
\* of lines 104-111 over the selectors from i on ended.
RECURSIVE LocatedFrom(_, _)
LocatedFrom(page, i) ==
    IF i > Len(fill_submit_selectors) THEN FALSE
    ELSE IF page[i] \in {"found", "stale"} THEN TRUE
    ELSE LocatedFrom(page, i + 1)

\* The search from selector i on: TRUE when line 109 is reached.
RECURSIVE ReportsFrom(_, _)
ReportsFrom(page, i) ==
    IF i > Len(fill_submit_selectors) THEN FALSE
    ELSE IF page[i] = "found" THEN TRUE
    ELSE ReportsFrom(page, i + 1)

\* An end of the strategy that clicks the control it found.
look_and_click(page, filled_count) ==
    [located |-> LocatedFrom(page, 1),
     clicks |-> IF ReportsFrom(page, 1) THEN 1 ELSE 0,
     result |-> IF ReportsFrom(page, 1) THEN "filled"
                ELSE IF filled_count > 0 THEN "partial"
                ELSE "failed"]

\* Lines 93-119: the submit control is looked for and, found or not, not
\* clicked; `clicks` counts the click() calls made, of which there is none.
look_for_submit_button(page, filled_count) ==
    [located |-> LocatedFrom(page, 1),
     clicks |-> 0,
     result |-> IF ReportsFrom(page, 1) THEN "filled"
                ELSE IF filled_count > 0 THEN "partial"
                ELSE "failed"]

\* The first member of the tuple returned (lines 109, 117, 119 and 124).
Success(result) == result \in {"filled", "partial"}

IdleFill == [pc |-> "idle", n |-> 0, i |-> 0, gemini_client |-> FALSE,
             has_kb |-> FALSE, resume_path |-> "", filled_count |-> 0,
             step |-> NoStep, upload |-> NoUpload, located |-> FALSE,
             clicks |-> 0, result |-> None]

InitFill == fill = IdleFill

\* fill_greenhouse_application is called and find_elements returns n input
\* fields (lines 27-45); when find_elements raises, lines 121-124 return
\* (False, "Greenhouse application failed: ...").
call_fill_greenhouse_application ==
    /\ fill.pc = "idle"
    /\ \E n \in 0 .. MaxFields, client \in BOOLEAN, kb \in BOOLEAN,
          find_fails \in BOOLEAN :
        fill' = IF find_fails
                THEN [IdleFill EXCEPT !.pc = "done", !.gemini_client = client,
                                      !.has_kb = kb, !.result = "error"]
                ELSE [IdleFill EXCEPT !.pc = "loop", !.n = n, !.i = 1,
                                      !.gemini_client = client, !.has_kb = kb]
    /\ UNCHANGED <<storeVars, retryVars, kbVars, atsVars, submitVars, sessionVars>>

\* An iteration that counts a field after its mapping has been taught, so
\* that a fault while learning leaves the field uncounted.
FieldStepCountingLast(field, stale, has_kb, k, client, reply, keys_fail, name_fail) ==
    LET known == IF stale THEN None ELSE KnownType(has_kb, k, field, "greenhouse")
        detected == detect_field_type(field, stale, has_kb, k, "greenhouse")
        ask == detected = "unknown" /\ client
        raised == ask /\ stale
        field_type == IF ask /\ ~raised THEN GeminiTypeOf[reply]
                      ELSE detected
        fill_called == ~raised /\ field_type # "unknown"
        effect == fill_field(field_type, stale, keys_fail)
        returned == fill_called /\ effect.ret
    IN  [field |-> field, stale |-> stale, known |-> known, detected |-> detected,
         ai_called |-> ask /\ ~raised, field_type |-> field_type,
         fill_called |-> fill_called,
         cleared |-> fill_called /\ effect.cleared,
         typed |-> fill_called /\ effect.typed,
         filled |-> returned /\ ~(has_kb /\ name_fail),
         learned |-> IF returned /\ has_kb
                     THEN learned_field_name(field, name_fail) ELSE None,
         raised |-> raised \/ (returned /\ has_kb /\ name_fail)]

\* The record of one iteration of the loop over the input fields (lines 47-80).
FieldStep(field, stale, has_kb, k, client, reply, keys_fail, name_fail) ==
    LET known == IF stale THEN None ELSE KnownType(has_kb, k, field, "greenhouse")
        detected == detect_field_type(field, stale, has_kb, k, "greenhouse")
        ask == detected = "unknown" /\ client
        \* line 57 reads the attributes again: a stale element raises there
        raised == ask /\ stale
        field_type == IF ask /\ ~raised THEN GeminiTypeOf[reply]
                      ELSE detected
        fill_called == ~raised /\ field_type # "unknown"
        effect == fill_field(field_type, stale, keys_fail)
        filled == fill_called /\ effect.ret
    IN  [field |-> field, stale |-> stale, known |-> known, detected |-> detected,
         ai_called |-> ask /\ ~raised, field_type |-> field_type,
         fill_called |-> fill_called,
         cleared |-> fill_called /\ effect.cleared,
         typed |-> fill_called /\ effect.typed,
         filled |-> filled,
         learned |-> IF filled /\ has_kb
                     THEN learned_field_name(field, name_fail) ELSE None,
         raised |-> raised \/ (filled /\ has_kb /\ name_fail)]

\* One iteration of the loop of fill_greenhouse_application, with the
\* learn_field_mapping call (and its write) that ends a successful fill. The
\* reply of the service, the outcome of send_keys, of the attribute reads of
\* line 72 and of the write are drawn where the iteration gets to them.
fill_field_iteration ==
    /\ fill.pc = "loop" /\ fill.i <= fill.n
    /\ \E field \in Fields, stale \in BOOLEAN :
        \E reply \in IF /\ fill.gemini_client /\ ~stale
                        /\ detect_field_type(field, stale, fill.has_kb, knowledge,
                                             "greenhouse") = "unknown"
                     THEN GeminiReplies ELSE {"raises"} :
        \E keys_fail \in IF FieldStep(field, stale, fill.has_kb, knowledge,
                                      fill.gemini_client, reply, FALSE, FALSE).filled
                         THEN BOOLEAN ELSE {FALSE} :
        \E name_fail \in IF /\ fill.has_kb
                            /\ FieldStep(field, stale, fill.has_kb, knowledge,
                                         fill.gemini_client, reply, keys_fail,
                                         FALSE).filled
                         THEN BOOLEAN ELSE {FALSE} :
        LET step == FieldStep(field, stale, fill.has_kb, knowledge,
                              fill.gemini_client, reply, keys_fail, name_fail)
        IN  /\ fill' = [fill EXCEPT !.i = @ + 1, !.step = step,
                          !.filled_count = IF step.filled THEN @ + 1 ELSE @]
            /\ IF step.learned # None
               THEN \E outcome \in SaveOutcomes :
                    /\ knowledge' = Learned(knowledge, step.learned,
                                            step.field_type, "greenhouse")
                    /\ disk' = _save_knowledge(disk, knowledge', outcome)
                    /\ last' = [op |-> "learn", field_identifier |-> step.learned,
                                field_type |-> step.field_type,
                                ats_platform |-> "greenhouse", ret |-> None,
                                save |-> outcome]
               ELSE UNCHANGED kbVars
    /\ UNCHANGED <<storeVars, retryVars, atsVars, submitVars, sessionVars>>

\* The resume upload that follows the loop (lines 82-91): the first file
\* input is given the resume when resume_path is not empty (the argument is
\* drawn here, where it is first read); what upload_file_drag_drop returns is
\* not looked at, and a find_elements that raises is logged. The variables of
\* the loop are not read again.
resume_upload ==
    /\ fill.pc = "loop" /\ fill.i > fill.n
    /\ \E file_inputs \in {"raises", "none", "some"},
          resume_path \in {"", "resume.pdf"} :
        IF file_inputs = "some" /\ resume_path # ""
        THEN \E direct_ok \in BOOLEAN :
             \E script_ok \in IF direct_ok THEN {TRUE} ELSE BOOLEAN :
             \E drop_ok \in IF direct_ok \/ ~script_ok THEN {TRUE} ELSE BOOLEAN :
                fill' = [fill EXCEPT !.pc = "submit", !.step = NoStep,
                            !.resume_path = resume_path,
                            !.upload = upload_file_drag_drop(direct_ok, script_ok,
                                                             drop_ok)]
        ELSE fill' = [fill EXCEPT !.pc = "submit", !.step = NoStep,
                                  !.resume_path = resume_path,
                                  !.upload = NoUpload]
    /\ UNCHANGED <<storeVars, retryVars, kbVars, atsVars, submitVars, sessionVars>>

\* The end of fill_greenhouse_application (lines 93-119): the submit control
\* is looked for and the outcome is returned.
fill_greenhouse_end ==
    /\ fill.pc = "submit"
    /\ \E page \in SubmitPages :
        LET end == look_for_submit_button(page, fill.filled_count)
        IN  fill' = [fill EXCEPT !.pc = "done", !.located = end.located,
                                 !.clicks = @ + end.clicks,
                                 !.result = end.result]
    /\ UNCHANGED <<storeVars, retryVars, kbVars, atsVars, submitVars, sessionVars>>

NextFill ==
    \/ call_fill_greenhouse_application
    \/ fill_field_iteration
    \/ resume_upload
    \/ fill_greenhouse_end

(***************************************************************************)
(* modules/retry_handler.py                                                *)
(***************************************************************************)

\* Bounds of the retry model.
MaxRetries == 3
MaxFallbacks == 2

\* Delays are counted in twentieths of a second, so that a tenth of every
\* delay is an integer: base_delay = 1.0 is 20, base_delay = 2.0 is 40.
TicksPerSecond == 20
BaseDelays == {1 * TicksPerSecond, 2 * TicksPerSecond}

\* The exceptions func can raise, each with the classes it is an instance of.
Raisable == {"TimeoutException", "ConnectionError"}
Classes(kind) ==
    IF kind = "TimeoutException"
    THEN {"TimeoutException", "WebDriverException", "Exception"}
    ELSE {"ConnectionError", "Exception"}

\* An except clause that matches every exception.
CaughtAlways(kind, exceptions) == TRUE

\* `except exceptions as e` matches e when e is an instance of a listed class.
Caught(kind, exceptions) == Classes(kind) \cap exceptions # {}

Pow2(n) == IF n = 0 THEN 1 ELSE 2 ^ n

\* uniform(0, delay * 0.1): a value of the closed interval, drawn here from
\* its two ends and its middle.
Jitters(delay) == {0, (delay \div 10) \div 2, delay \div 10}

\* A backoff that forgets the exponent.
constant_backoff(attempt, base_delay, jitter) == base_delay + jitter

\* exponential_backoff: delay = base_delay * (2 ** attempt), plus the jitter drawn.
exponential_backoff(attempt, base_delay, jitter) ==
    base_delay * Pow2(attempt) + jitter

NoException == [kind |-> "none", call |-> 0]

IdleRwb ==
    [pc |-> "idle", max_retries |-> 0, base_delay |-> 0, exceptions |-> {},
     on_retry |-> "none", attempt |-> 0, last_exception |-> NoException,
     raised |-> NoException, events |-> <<>>, delays |-> <<>>]

IdleRc == [pc |-> "idle", n |-> 0, sel |-> 0, log |-> <<>>, result |-> "none"]

\* The frame of retry_with_backoff on entry (line 43).
EnterRwb(max_retries, base_delay, exceptions, on_retry) ==
    [pc |-> "loop", max_retries |-> max_retries, base_delay |-> base_delay,
     exceptions |-> exceptions, on_retry |-> on_retry, attempt |-> 0,
     last_exception |-> NoException, raised |-> NoException,
     events |-> <<>>, delays |-> <<>>]

InitRetry == rwb = IdleRwb /\ rc = IdleRc

\* A direct call of retry_with_backoff. on_retry is absent ("none"), a callback
\* that returns ("ok") or a callback that raises ("raises").
call_retry_with_backoff ==
    /\ rwb.pc = "idle" /\ rc.pc = "idle"
    /\ \E mr \in 0 .. MaxRetries, bd \in BaseDelays,
          ex \in {{"Exception"}, {"WebDriverException"}},
          cb \in {"none", "ok", "raises"} :
            rwb' = EnterRwb(mr, bd, ex, cb)
    /\ UNCHANGED <<storeVars, rc, kbVars, fillVars, atsVars, submitVars, sessionVars>>

\* The number of func invocations a run has made so far.
Calls(f) == Cardinality({i \in 1 .. Len(f.events) :
                 f.events[i] \in {"call_ok", "call_failed", "call_uncaught"}})

\* The frame after one iteration of the for loop of retry_with_backoff (lines
\* 45-57) whose func() call ended with `result`; the iteration that ends the
\* loop also executes line 59.
IterateUpTo(f, result, jitter, cb_raises, limit) ==
    LET e == [kind |-> result, call |-> Calls(f) + 1] IN
    IF result = "ok"
    THEN [f EXCEPT !.pc = "returned", !.events = Append(@, "call_ok")]
    ELSE IF ~Caught(result, f.exceptions)
    THEN [f EXCEPT !.pc = "raised", !.raised = e,
                   !.events = Append(@, "call_uncaught")]
    ELSE IF f.attempt < limit
    THEN LET delay == exponential_backoff(f.attempt, f.base_delay, jitter) IN
         IF f.on_retry = "none"
         THEN [f EXCEPT !.attempt = @ + 1, !.last_exception = e,
                        !.events = @ \o <<"call_failed", "sleep">>,
                        !.delays = Append(@, delay)]
         ELSE IF cb_raises
         THEN [f EXCEPT !.pc = "raised", !.last_exception = e,
                        !.raised = [kind |-> "CallbackError", call |-> 0],
                        !.events = @ \o <<"call_failed", "on_retry">>]
         ELSE [f EXCEPT !.attempt = @ + 1, !.last_exception = e,
                        !.events = @ \o <<"call_failed", "on_retry", "sleep">>,
                        !.delays = Append(@, delay)]
    ELSE [f EXCEPT !.pc = "raised", !.last_exception = e, !.raised = e,
                   !.events = Append(@, "call_failed")]

\* A loop that makes one attempt too many.
IterateOneMore(f, result, jitter, cb_raises) ==
    IterateUpTo(f, result, jitter, cb_raises, f.max_retries + 1)

Iterate(f, result, jitter, cb_raises) ==
    IterateUpTo(f, result, jitter, cb_raises, f.max_retries)

retry_with_backoff ==
    /\ rwb.pc = "loop"
    /\ \E result \in {"ok"} \cup Raisable :
       \E jitter \in Jitters(rwb.base_delay * Pow2(rwb.attempt)) :
          rwb' = Iterate(rwb, result, jitter, rwb.on_retry = "raises")
    /\ UNCHANGED <<storeVars, rc, kbVars, fillVars, atsVars, submitVars, sessionVars>>

\* retry_click called with a primary selector and nf fallback selectors (line
\* 75); the first iteration of its loop enters retry_with_backoff (line 86).
call_retry_click ==
    /\ rwb.pc = "idle" /\ rc.pc = "idle"
    /\ \E mr \in 0 .. MaxRetries, nf \in 0 .. MaxFallbacks :
        /\ rc' = [pc |-> "loop", n |-> 1 + nf, sel |-> 1, log |-> <<>>,
                  result |-> "none"]
        /\ rwb' = EnterRwb(mr, 1 * TicksPerSecond, {"WebDriverException"}, "none")
    /\ UNCHANGED <<storeVars, kbVars, fillVars, atsVars, submitVars, sessionVars>>

\* What retry_click does when the retry_with_backoff run of the selector
\* c.sel has ended in frame f (lines 86-96).
\* A handler that catches only what retry_with_backoff already retried.
ClickHandlerNarrow == {"WebDriverException"}
\* `except Exception` of retry_click (line 92).
ClickHandler == {"Exception"}
AfterSelector(c, f) ==
    LET entry == [selector |-> c.sel, clicks |-> Calls(f),
                  ended |-> IF f.pc = "returned" THEN "clicked" ELSE f.raised.kind]
        log == Append(c.log, entry)
    IN  IF f.pc = "returned"
        THEN [c EXCEPT !.pc = "done", !.log = log, !.result = "True"]
        ELSE IF ~Caught(f.raised.kind, ClickHandler)
        THEN [c EXCEPT !.pc = "raised", !.log = log]
        ELSE IF c.sel < c.n
        THEN [c EXCEPT !.sel = @ + 1, !.log = log]
        ELSE [c EXCEPT !.pc = "done", !.log = log, !.result = "False"]

retry_click ==
    /\ rc.pc = "loop"
    /\ rwb.pc \in {"returned", "raised"}
    /\ rc' = AfterSelector(rc, rwb)
    /\ rwb' = IF rc'.pc = "loop"
              THEN EnterRwb(rwb.max_retries, 1 * TicksPerSecond,
                            {"WebDriverException"}, "none")
              ELSE rwb
    /\ UNCHANGED <<storeVars, kbVars, fillVars, atsVars, submitVars, sessionVars>>

(***************************************************************************)
(* modules/external/ats_detector.py                                        *)
(***************************************************************************)

\* ATS_PATTERNS (lines 13-45), in the order of the dictionary; every domain
\* fragment is the sequence of its characters.
ATS_PATTERNS ==
    <<
      <<"greenhouse", <<
          <<"g", "r", "e", "e", "n", "h", "o", "u", "s", "e", ".", "i", "o">>,  \* greenhouse.io
          <<"b", "o", "a", "r", "d", "s", ".", "g", "r", "e", "e", "n", "h", "o", "u", "s", "e", ".", "i", "o">>,  \* boards.greenhouse.io
          <<"j", "o", "b", "-", "b", "o", "a", "r", "d", "s", ".", "g", "r", "e", "e", "n", "h", "o", "u", "s", "e", ".", "i", "o">>  \* job-boards.greenhouse.io
      >> >>,
      <<"lever", <<
          <<"l", "e", "v", "e", "r", ".", "c", "o">>,  \* lever.co
          <<"j", "o", "b", "s", ".", "l", "e", "v", "e", "r", ".", "c", "o">>  \* jobs.lever.co
      >> >>,
      <<"workday", <<
          <<"m", "y", "w", "o", "r", "k", "d", "a", "y", "j", "o", "b", "s", ".", "c", "o", "m">>,  \* myworkdayjobs.com
          <<"w", "d", "1", ".", "m", "y", "w", "o", "r", "k", "d", "a", "y", "j", "o", "b", "s", ".", "c", "o", "m">>,  \* wd1.myworkdayjobs.com
          <<"w", "d", "5", ".", "m", "y", "w", "o", "r", "k", "d", "a", "y", "j", "o", "b", "s", ".", "c", "o", "m">>  \* wd5.myworkdayjobs.com
      >> >>,
      <<"taleo", <<
          <<"t", "a", "l", "e", "o", ".", "n", "e", "t">>,  \* taleo.net
          <<"t", "b", "e", ".", "t", "a", "l", "e", "o", ".", "n", "e", "t">>  \* tbe.taleo.net
      >> >>,
      <<"icims", <<
          <<"i", "c", "i", "m", "s", ".", "c", "o", "m">>,  \* icims.com
          <<"c", "a", "r", "e", "e", "r", "s", ".", "i", "c", "i", "m", "s", ".", "c", "o", "m">>  \* careers.icims.com
      >> >>,
      <<"bamboohr", <<
          <<"b", "a", "m", "b", "o", "o", "h", "r", ".", "c", "o", "m">>  \* bamboohr.com
      >> >>,
      <<"jobvite", <<
          <<"j", "o", "b", "v", "i", "t", "e", ".", "c", "o", "m">>  \* jobvite.com
      >> >>,
      <<"smartrecruiters", <<
          <<"s", "m", "a", "r", "t", "r", "e", "c", "r", "u", "i", "t", "e", "r", "s", ".", "c", "o", "m">>  \* smartrecruiters.com
      >> >>
    >>

\* ATS_DOM_SIGNATURES (lines 48-58), in the order of the dictionary.
ATS_DOM_SIGNATURES ==
    <<
      <<"greenhouse", <<
          "div[id*=\"application\"]",
          "div[class*=\"application\"]",
          "form[id*=\"greenhouse\"]"
      >> >>,
      <<"lever", <<
          "div[class*=\"posting\"]",
          "div[class*=\"application-form\"]"
      >> >>
    >>

\* driver.current_url: the pages the detector is asked about.
Urls ==
    {"https://boards.greenhouse.io/acme/jobs/17",
     "https://JOBS.LEVER.CO/acme",
     "https://acme.com/careers",
     "https://jobs.lever.co/x?ref=greenhouse.io",
     "https://acme.icims.com/jobs"}

\* The loops of lines 68-72 from the table entry t and its pattern j on.
RECURSIVE UrlFrom(_, _, _)
UrlFrom(url_lower, t, j) ==
    IF t > Len(ATS_PATTERNS) THEN "unknown"
    ELSE IF j > Len(ATS_PATTERNS[t][2]) THEN UrlFrom(url_lower, t + 1, 1)
    ELSE IF Occurs(ATS_PATTERNS[t][2][j], url_lower) THEN ATS_PATTERNS[t][1]
    ELSE UrlFrom(url_lower, t, j + 1)

\* detect_ats_from_url (lines 61-74).
detect_ats_from_url(url) == UrlFrom(Lower(Chars[url]), 1, 1)

\* The outcome of the URL detection for every page, worked out once.
UrlTypeOf == [url \in Urls |-> detect_ats_from_url(url)]

\* The selectors of ATS_DOM_SIGNATURES.
DomSelectors ==
    UNION {{ATS_DOM_SIGNATURES[t][2][j] : j \in DOMAIN ATS_DOM_SIGNATURES[t][2]} :
              t \in DOMAIN ATS_DOM_SIGNATURES}

\* What find_elements gives for every selector (line 88): no element, some
\* elements, or an exception.
Doms == [DomSelectors -> {"none", "some", "raises"}]

\* The loops of lines 85-93 from the table entry t and its selector j on, with
\* the selectors probed so far.
RECURSIVE DomFrom(_, _, _, _)
DomFrom(dom, t, j, probed) ==
    IF t > Len(ATS_DOM_SIGNATURES) THEN [ret |-> "unknown", probed |-> probed]
    ELSE IF j > Len(ATS_DOM_SIGNATURES[t][2]) THEN DomFrom(dom, t + 1, 1, probed)
    ELSE IF dom[ATS_DOM_SIGNATURES[t][2][j]] = "some"
    THEN [ret |-> ATS_DOM_SIGNATURES[t][1],
          probed |-> Append(probed, ATS_DOM_SIGNATURES[t][2][j])]
    ELSE DomFrom(dom, t, j + 1, Append(probed, ATS_DOM_SIGNATURES[t][2][j]))

\* detect_ats_from_dom (lines 77-98).
detect_ats_from_dom(dom) == DomFrom(dom, 1, 1, <<>>)

\* A detector that asks the DOM before the URL.
detect_dom_first(current_url, dom) ==
    IF detect_ats_from_dom(dom).ret # "unknown" THEN detect_ats_from_dom(dom)
    ELSE [ret |-> UrlTypeOf[current_url],
          probed |-> detect_ats_from_dom(dom).probed]

\* detect_ats_platform (lines 101-115).
detect_ats_platform(current_url, dom) ==
    IF UrlTypeOf[current_url] # "unknown"
    THEN [ret |-> UrlTypeOf[current_url], probed |-> <<>>]
    ELSE detect_ats_from_dom(dom)

NoDetection == [called |-> FALSE, raised |-> FALSE, current_url |-> "",
                dom |-> [s \in DomSelectors |-> "none"], ret |-> None,
                probed |-> <<>>]

InitAts == detection = NoDetection

\* A call of detect_ats_platform on a page; driver.current_url (line 106) is
\* read outside any try, so that its exception leaves the function.
call_detect_ats_platform ==
    /\ \E url_raises \in BOOLEAN :
        IF url_raises
        THEN detection' = [NoDetection EXCEPT !.called = TRUE, !.raised = TRUE]
        ELSE \E current_url \in Urls, dom \in Doms :
                detection' =
                    [called |-> TRUE, raised |-> FALSE,
                     current_url |-> current_url, dom |-> dom,
                     ret |-> detect_ats_platform(current_url, dom).ret,
                     probed |-> detect_ats_platform(current_url, dom).probed]
    /\ UNCHANGED <<storeVars, retryVars, kbVars, fillVars, submitVars, sessionVars>>

NextAts == call_detect_ats_platform

(***************************************************************************)
(* modules/external/greenhouse_handler.py: submit_greenhouse_application   *)
(***************************************************************************)

\* submit_selectors of submit_greenhouse_application (lines 134-139).
submit_selectors ==
    <<"button[type=\"submit\"]",
      "input[type=\"submit\"]",
      "button[id*=\"submit\"]",
      "button[class*=\"submit\"]">>

\* success_indicators (lines 148-153), each the sequence of its characters.
success_indicators ==
    <<
      <<"t", "h", "a", "n", "k", " ", "y", "o", "u">>,  \* thank you
      <<"a", "p", "p", "l", "i", "c", "a", "t", "i", "o", "n", " ", "s", "u", "b", "m", "i", "t", "t", "e", "d">>,  \* application submitted
      <<"a", "p", "p", "l", "i", "c", "a", "t", "i", "o", "n", " ", "r", "e", "c", "e", "i", "v", "e", "d">>,  \* application received
      <<"w", "e", "'", "l", "l", " ", "b", "e", " ", "i", "n", " ", "t", "o", "u", "c", "h">>  \* we'll be in touch
    >>

\* driver.page_source after the click (line 155).
PageSources ==
    {"<h1>Thank You!</h1>", "Application Submitted",
     "Please fix the errors below", "<html></html>"}

\* Lines 155-159: a success phrase occurs in the lowercased page source.
Verified(page_source) ==
    \E k \in DOMAIN success_indicators :
        Occurs(success_indicators[k], Lower(Chars[page_source]))

\* The outcome of the verification for every page source, worked out once.
VerifiedOf == [page_source \in PageSources |-> Verified(page_source)]

\* One iteration of the loop of lines 141-164: whether the element was
\* clicked, and what the iteration returns ("continue" when the bare except
\* of line 163 caught an exception of find_element, of click or of the read
\* of page_source).
TrySelector(element, click_ok, page_source) ==
    IF element = "absent" THEN [clicked |-> FALSE, ret |-> "continue"]
    ELSE IF ~click_ok THEN [clicked |-> FALSE, ret |-> "continue"]
    ELSE IF page_source = "raises" THEN [clicked |-> TRUE, ret |-> "continue"]
    ELSE IF VerifiedOf[page_source]
    THEN [clicked |-> TRUE, ret |-> "Application submitted"]
    ELSE [clicked |-> TRUE, ret |-> "Submit button clicked (verification needed)"]

IdleSubmit == [pc |-> "idle", i |-> 0, clicked |-> <<>>, element |-> "absent",
               page_source |-> "", success |-> FALSE, message |-> None]

InitSubmit == submit = IdleSubmit

\* submit_greenhouse_application is called (lines 127-139).
call_submit_greenhouse_application ==
    /\ submit.pc = "idle"
    /\ submit' = [IdleSubmit EXCEPT !.pc = "loop", !.i = 1]
    /\ UNCHANGED <<storeVars, retryVars, kbVars, fillVars, atsVars, sessionVars>>

\* One iteration of the loop over submit_selectors (lines 141-164).
submit_selector_iteration ==
    /\ submit.pc = "loop" /\ submit.i <= Len(submit_selectors)
    /\ \E element \in {"absent", "present"}, click_ok \in BOOLEAN,
          page_source \in PageSources \cup {"raises"} :
        LET try == TrySelector(element, click_ok, page_source)
        IN  submit' =
              [submit EXCEPT
                 !.clicked = IF try.clicked
                             THEN Append(@, submit_selectors[submit.i]) ELSE @,
                 !.element = element,
                 !.page_source = IF try.clicked THEN page_source ELSE "",
                 !.pc = IF try.ret = "continue" THEN "loop" ELSE "done",
                 !.i = IF try.ret = "continue" THEN @ + 1 ELSE @,
                 !.success = try.ret # "continue",
                 !.message = IF try.ret = "continue" THEN None ELSE try.ret]
    /\ UNCHANGED <<storeVars, retryVars, kbVars, fillVars, atsVars, sessionVars>>

\* The loop ran out of selectors (line 166).
submit_not_found ==
    /\ submit.pc = "loop" /\ submit.i > Len(submit_selectors)
    /\ submit' = [submit EXCEPT !.pc = "done", !.success = FALSE,
                                !.message = "Could not find submit button"]
    /\ UNCHANGED <<storeVars, retryVars, kbVars, fillVars, atsVars, sessionVars>>

NextSubmit ==
    \/ call_submit_greenhouse_application
    \/ submit_selector_iteration
    \/ submit_not_found

(***************************************************************************)
(* modules/session_manager.py                                              *)
(***************************************************************************)

\* Bound of the checkpoint model: the hours the clock runs for.
MaxHours == 26

\* The age, in hours, from which a checkpoint is not resumed from (line 91).
StaleHours == 24

\* The `data` given to save_checkpoint: dictionaries in insertion order, every
\* value with its Python type and its items.
Payloads ==
    { <<<<"job_index", [type |-> "int", items |-> <<3>>]>>>>,
      <<<<"job_index", [type |-> "int", items |-> <<7>>]>>,
        <<"applied", [type |-> "list", items |-> <<1, 2>>]>>>>,
      <<<<"applied", [type |-> "tuple", items |-> <<1, 2>>]>>>>,
      <<<<"seen", [type |-> "set", items |-> <<1>>]>>>> }

\* json.dump raises a TypeError on a value it has no encoding for (line 31).
Serialisable(data) == \A i \in DOMAIN data : data[i][2].type # "set"

\* What json.load gives back for what json.dump wrote: a tuple is written as
\* an array and read as a list.
JsonImage(data) ==
    [i \in DOMAIN data |->
        <<data[i][1],
          [data[i][2] EXCEPT !.type = IF @ = "tuple" THEN "list" ELSE @]>>]

\* The file: absent, not JSON, or a JSON object with the keys it has (a
\* missing key is the empty sequence, a key the sequence of its value).
MissingCheckpoint == [state |-> "missing", timestamp |-> <<>>, data |-> <<>>]
CorruptCheckpoint == [state |-> "corrupt", timestamp |-> <<>>, data |-> <<>>]

\* The faults of the file system: none, one before the file is opened or
\* removed, one while it is written or read.
IoFaults == {"none", "open", "transfer"}

\* save_checkpoint (lines 18-36): the file afterwards and the value returned.
\* open(..., 'w') empties the file, so that a dump that raises leaves a file
\* that is not JSON.
save_checkpoint(file, data, clock, fault) ==
    IF fault = "open" THEN [file |-> file, ret |-> FALSE]
    ELSE IF fault = "transfer" \/ ~Serialisable(data)
    THEN [file |-> CorruptCheckpoint, ret |-> FALSE]
    ELSE [file |-> [state |-> "json", timestamp |-> <<clock>>,
                    data |-> <<JsonImage(data)>>],
          ret |-> TRUE]

\* A load that applies the staleness rule of should_resume.
load_fresh_checkpoint(file, fault) ==
    IF file.state = "missing" THEN <<>>
    ELSE IF fault # "none" \/ file.state = "corrupt" THEN <<>>
    ELSE IF file.timestamp # <<>> /\ now - file.timestamp[1] >= StaleHours
    THEN <<>>
    ELSE file.data

\* load_checkpoint (lines 39-56): checkpoint.get('data'), None being the
\* empty sequence.
load_checkpoint(file, fault) ==
    IF file.state = "missing" THEN <<>>
    ELSE IF fault # "none" \/ file.state = "corrupt" THEN <<>>
    ELSE file.data

\* clear_checkpoint (lines 59-71): the file afterwards and the value returned.
clear_checkpoint(file, fault) ==
    IF file.state = "missing" THEN [file |-> file, ret |-> TRUE]
    ELSE IF fault # "none" THEN [file |-> file, ret |-> FALSE]
    ELSE [file |-> MissingCheckpoint, ret |-> TRUE]

\* A staleness test that still resumes from a checkpoint of exactly 24 hours.
should_resume_inclusive(file, clock, fault) ==
    IF file.state = "missing" THEN FALSE
    ELSE IF fault # "none" \/ file.state = "corrupt" THEN FALSE
    ELSE IF file.timestamp = <<>> THEN FALSE
    ELSE clock - file.timestamp[1] <= StaleHours

\* should_resume (lines 74-95).
should_resume(file, clock, fault) ==
    IF file.state = "missing" THEN FALSE
    ELSE IF fault # "none" \/ file.state = "corrupt" THEN FALSE
    ELSE IF file.timestamp = <<>> THEN FALSE
    ELSE clock - file.timestamp[1] < StaleHours

\* The latest call: its operation, its argument, its fault, its time, what it returned
\* (ret for a truth value, loaded for the data of load_checkpoint), and, kept
\* for the claims, the data of the latest save_checkpoint that returned True
\* since the latest clear_checkpoint and whether a fault has occurred so far.
NoSessionCall == [op |-> "none", arg |-> <<>>, fault |-> "none", clock |-> 0,
                  ret |-> FALSE,
                  loaded |-> <<>>, latest |-> <<>>, faulted |-> FALSE]

\* At the start the clock is at 0 and there is no file.
InitSession ==
    /\ checkpoint_file = MissingCheckpoint
    /\ now = 0
    /\ session = NoSessionCall

call_save_checkpoint ==
    /\ \E data \in Payloads, fault \in IoFaults :
        LET saved == save_checkpoint(checkpoint_file, data, now, fault)
        IN  /\ checkpoint_file' = saved.file
            /\ session' = [op |-> "save", arg |-> <<data>>, fault |-> fault,
                    clock |-> now,
                           ret |-> saved.ret, loaded |-> <<>>,
                           latest |-> IF saved.ret THEN <<data>>
                                      ELSE session.latest,
                           faulted |-> session.faulted \/ fault # "none"]
    /\ UNCHANGED <<storeVars, now, retryVars, kbVars, fillVars, atsVars, submitVars>>

call_load_checkpoint ==
    /\ \E fault \in IoFaults \ {"open"} :
        session' = [op |-> "load", arg |-> <<>>, fault |-> fault,
                    clock |-> now, ret |-> FALSE,
                    loaded |-> load_checkpoint(checkpoint_file, fault),
                    latest |-> session.latest,
                    faulted |-> session.faulted
                                \/ (fault # "none" /\ checkpoint_file.state # "missing")]
    /\ UNCHANGED <<storeVars, checkpoint_file, now, retryVars, kbVars, fillVars, atsVars,
                   submitVars>>

call_clear_checkpoint ==
    /\ \E fault \in IoFaults \ {"transfer"} :
        LET cleared == clear_checkpoint(checkpoint_file, fault)
        IN  /\ checkpoint_file' = cleared.file
            /\ session' = [op |-> "clear", arg |-> <<>>, fault |-> fault,
                    clock |-> now,
                           ret |-> cleared.ret, loaded |-> <<>>,
                           latest |-> IF cleared.file.state = "missing" THEN <<>>
                                      ELSE session.latest,
                           faulted |-> session.faulted
                                       \/ (fault # "none" /\ checkpoint_file.state # "missing")]
    /\ UNCHANGED <<storeVars, now, retryVars, kbVars, fillVars, atsVars, submitVars>>

call_should_resume ==
    /\ \E fault \in IoFaults \ {"open"} :
        session' = [op |-> "should_resume", arg |-> <<>>, fault |-> fault,
                    clock |-> now,
                    ret |-> should_resume(checkpoint_file, now, fault),
                    loaded |-> <<>>, latest |-> session.latest,
                    faulted |-> session.faulted
                                \/ (fault # "none" /\ checkpoint_file.state # "missing")]
    /\ UNCHANGED <<storeVars, checkpoint_file, now, retryVars, kbVars, fillVars, atsVars,
                   submitVars>>

\* Time passes between two calls: an hour, or a day.
Tick ==
    /\ \E hours \in {1, StaleHours} :
        /\ now + hours <= MaxHours
        /\ now' = now + hours
    /\ UNCHANGED <<storeVars, checkpoint_file, session, retryVars, kbVars, fillVars,
                   atsVars, submitVars>>

NextSession ==
    \/ call_save_checkpoint
    \/ call_load_checkpoint
    \/ call_clear_checkpoint
    \/ call_should_resume
    \/ Tick

(***************************************************************************)
(* modules/smart_filter.py                                                 *)
(***************************************************************************)

\* Bound of the SmartFilter model: the rejections recorded for one company.
MaxRejections == 2

JobIds == {"3812", "3813"}
Companies == {"Acme", "Globex"}
\* The `reason` given to add_rejected_company: its default.
Reasons == {"Rejected application"}
Thresholds == {1, 2, 3}

\* rejected_companies["companies"]: for every company no record (the empty
\* sequence) or its record. first_rejection and last_rejection, which are
\* written and never read, are left out.
NoCompanies == [c \in Companies |-> <<>>]

\* The two files: absent, not JSON, or the JSON document last written
\* (viewed_job_ids read back as a set, line 35).
MissingViewed == [state |-> "missing", viewed_job_ids |-> {}]
CorruptViewed == [state |-> "corrupt", viewed_job_ids |-> {}]
MissingRejected == [state |-> "missing", companies |-> NoCompanies]
CorruptRejected == [state |-> "corrupt", companies |-> NoCompanies]

\* _save_viewed_jobs (lines 50-54): the file afterwards and whether the call
\* raised. A fault of os.makedirs or of open leaves the file as it was; open
\* in mode 'w' empties it, so a fault of json.dump leaves a file that is not
\* JSON. Nothing catches the exception.
_save_viewed_jobs(file, jobs, fault) ==
    IF fault = "open" THEN [file |-> file, raised |-> TRUE]
    ELSE IF fault = "transfer" THEN [file |-> CorruptViewed, raised |-> TRUE]
    ELSE [file |-> [state |-> "json", viewed_job_ids |-> jobs],
          raised |-> FALSE]

\* _save_rejected_companies (lines 56-60).
_save_rejected_companies(file, companies, fault) ==
    IF fault = "open" THEN [file |-> file, raised |-> TRUE]
    ELSE IF fault = "transfer" THEN [file |-> CorruptRejected, raised |-> TRUE]
    ELSE [file |-> [state |-> "json", companies |-> companies],
          raised |-> FALSE]

\* is_viewed (lines 67-69).
is_viewed(jobs, job_id) == job_id \in jobs

\* The record of a company after one more rejection (lines 81-92).
Rejected(companies, company, reason) ==
    LET record == IF companies[company] = <<>>
                  THEN [rejection_count |-> 0, reasons |-> <<>>]
                  ELSE companies[company][1]
        told == \E i \in DOMAIN record.reasons : record.reasons[i] = reason
    IN  [rejection_count |-> record.rejection_count + 1,
         reasons |-> IF told THEN record.reasons
                     ELSE Append(record.reasons, reason)]

\* A threshold that has to be exceeded, not reached.
should_skip_above(companies, company, rejection_threshold) ==
    /\ companies[company] # <<>>
    /\ companies[company][1].rejection_count > rejection_threshold

\* should_skip_company (lines 96-110).
should_skip_company(companies, company, rejection_threshold) ==
    /\ companies[company] # <<>>
    /\ companies[company][1].rejection_count >= rejection_threshold

\* The rejection count of a company, 0 without a record.
RejectionCount(companies, company) ==
    IF companies[company] = <<>> THEN 0
    ELSE companies[company][1].rejection_count

\* Bound of the priority model: the largest company_rejection_count given.
MaxPriorRejections == 6

\* Optional[int] arguments: None is the empty sequence.
ApplicantCounts == {<<>>} \cup {<<n>> : n \in {0, 5, 9, 10, 49, 50, 200, 201, 500}}
DaysPosted == {<<>>} \cup {<<d>> : d \in {0, 1, 2, 3, 7, 8, 30, 31, 90}}

Max(a, b) == IF a >= b THEN a ELSE b
Min(a, b) == IF a <= b THEN a ELSE b

\* A score for which ten applicants are still few.
calculate_job_priority_few(applicant_count, days_posted, is_easy_apply, company_rejection_count) ==
    LET base == 50
        by_applicants ==
            IF applicant_count = <<>> THEN base
            ELSE IF applicant_count[1] <= 10 THEN base + 20
            ELSE IF applicant_count[1] < 50 THEN base + 10
            ELSE IF applicant_count[1] > 200 THEN base - 20
            ELSE base
        by_days ==
            IF days_posted = <<>> THEN by_applicants
            ELSE IF days_posted[1] = 0 THEN by_applicants + 15
            ELSE IF days_posted[1] <= 2 THEN by_applicants + 10
            ELSE IF days_posted[1] <= 7 THEN by_applicants + 5
            ELSE IF days_posted[1] > 30 THEN by_applicants - 10
            ELSE by_applicants
        by_easy == IF is_easy_apply THEN by_days + 10 ELSE by_days
        score == by_easy - company_rejection_count * 5
    IN  Max(0, Min(100, score))

\* calculate_job_priority (lines 112-158).
calculate_job_priority(applicant_count, days_posted, is_easy_apply, company_rejection_count) ==
    LET base == 50
        by_applicants ==
            IF applicant_count = <<>> THEN base
            ELSE IF applicant_count[1] < 10 THEN base + 20
            ELSE IF applicant_count[1] < 50 THEN base + 10
            ELSE IF applicant_count[1] > 200 THEN base - 20
            ELSE base
        by_days ==
            IF days_posted = <<>> THEN by_applicants
            ELSE IF days_posted[1] = 0 THEN by_applicants + 15
            ELSE IF days_posted[1] <= 2 THEN by_applicants + 10
            ELSE IF days_posted[1] <= 7 THEN by_applicants + 5
            ELSE IF days_posted[1] > 30 THEN by_applicants - 10
            ELSE by_applicants
        by_easy == IF is_easy_apply THEN by_days + 10 ELSE by_days
        score == by_easy - company_rejection_count * 5
    IN  Max(0, Min(100, score))

\* The decimal digits, and int() of a run of them.
Digits == <<"0", "1", "2", "3", "4", "5", "6", "7", "8", "9">>
IsDigit(c) == \E d \in DOMAIN Digits : Digits[d] = c
DigitValue(c) == (CHOOSE d \in DOMAIN Digits : Digits[d] = c) - 1
RECURSIVE IntOf(_)
IntOf(run) ==
    IF run = <<>> THEN 0
    ELSE 10 * IntOf(SubSeq(run, 1, Len(run) - 1)) + DigitValue(run[Len(run)])

\* str(n): the decimal digits of a number.
RECURSIVE Decimal(_)
Decimal(n) ==
    IF n < 10 THEN <<Digits[n + 1]>>
    ELSE Decimal(n \div 10) \o <<Digits[(n % 10) + 1]>>

\* The place after the longest run of digits (of whitespace) that starts at
\* `at`; `at` itself when there is none.
RECURSIVE AfterDigits(_, _)
AfterDigits(text, at) ==
    IF at <= Len(text) /\ IsDigit(text[at]) THEN AfterDigits(text, at + 1)
    ELSE at
RECURSIVE AfterSpace(_, _)
AfterSpace(text, at) ==
    IF at <= Len(text) /\ text[at] \in Whitespace THEN AfterSpace(text, at + 1)
    ELSE at

\* re.search(word \s+ (\d+)): the number of the leftmost match, the empty
\* sequence when nothing matches.
WordThenNumberAt(word, text, at) ==
    LET s == at + Len(word)
        d == AfterSpace(text, s)
    IN  /\ at + Len(word) - 1 <= Len(text)
        /\ SubSeq(text, at, at + Len(word) - 1) = word
        /\ d > s
        /\ AfterDigits(text, d) > d
SearchWordThenNumber(word, text) ==
    LET places == {at \in 1 .. Len(text) : WordThenNumberAt(word, text, at)}
    IN  IF places = {} THEN <<>>
        ELSE LET at == CHOOSE p \in places : \A q \in places : p <= q
                 d == AfterSpace(text, at + Len(word))
             IN  <<IntOf(SubSeq(text, d, AfterDigits(text, d) - 1))>>

\* re.search((\d+) \s+ word): the digits of the leftmost match run up to
\* the whitespace, the match starts at the leftmost digit that has one.
NumberThenWordAt(text, word, at) ==
    LET e == AfterDigits(text, at)
        w == AfterSpace(text, e)
    IN  /\ e > at
        /\ w > e
        /\ w + Len(word) - 1 <= Len(text)
        /\ SubSeq(text, w, w + Len(word) - 1) = word
SearchNumberThenWord(text, word) ==
    LET places == {at \in 1 .. Len(text) : NumberThenWordAt(text, word, at)}
    IN  IF places = {} THEN <<>>
        ELSE LET at == CHOOSE p \in places : \A q \in places : p <= q
             IN  <<IntOf(SubSeq(text, at, AfterDigits(text, at) - 1))>>

\* re.search((\d+)): the leftmost run of digits.
SearchNumber(text) ==
    LET places == {at \in 1 .. Len(text) : IsDigit(text[at])}
    IN  IF places = {} THEN <<>>
        ELSE LET at == CHOOSE p \in places : \A q \in places : p <= q
             IN  <<IntOf(SubSeq(text, at, AfterDigits(text, at) - 1))>>

\* The words of the two extractions.
Over == <<"o", "v", "e", "r">>
First == <<"f", "i", "r", "s", "t">>
Applicant == <<"a", "p", "p", "l", "i", "c", "a", "n", "t">>

\* SmartFilter.extract_applicant_count takes None (the empty sequence) or a
\* string (the sequence of its characters) and returns a number, or None
\* (the empty sequence).
\* The body of the try (lines 171-187): None.lower() raises.
TryExtract(applicant_text) ==
    IF applicant_text = <<>> THEN [raised |-> TRUE, ret |-> <<>>]
    ELSE LET lower == Lower(applicant_text[1])
             over == SearchWordThenNumber(Over, lower)
             plain == SearchNumberThenWord(lower, Applicant)
             first == SearchWordThenNumber(First, lower)
         IN  [raised |-> FALSE,
              ret |-> IF Occurs(Over, lower) /\ over # <<>>
                      THEN <<over[1] + 50>>
                      ELSE IF plain # <<>> THEN plain
                      ELSE IF Occurs(First, lower) /\ first # <<>>
                      THEN <<first[1] \div 2>>
                      ELSE <<>>]

\* extract_applicant_count (lines 160-191): whether it raised and what it
\* returned; an exception of the body is passed over (lines 188-191).
extract_applicant_count(applicant_text) ==
    LET tried == TryExtract(applicant_text)
    IN  IF tried.raised THEN [raised |-> FALSE, ret |-> <<>>] ELSE tried

\* The latest call on the SmartFilter: its operation, its arguments (arg is
\* the job id or the company), whether it raised and, when it returned a
\* value, that value (the empty sequence for None or no value).
NoFilterCall == [op |-> "none", arg |-> "", rejection_threshold |-> 0,
                 days |-> 0, fault |-> "none", raised |-> FALSE, ret |-> <<>>]

\* __init__ (lines 14-27) without the two files: nothing viewed, no company.
InitFilter ==
    /\ viewed_jobs = {}
    /\ viewed_jobs_file = MissingViewed
    /\ rejected_companies = NoCompanies
    /\ rejected_companies_file = MissingRejected
    /\ smart_filter = NoFilterCall

\* mark_as_viewed (lines 62-65): the id is added before the file is written.
mark_as_viewed ==
    /\ \E job_id \in JobIds, fault \in IoFaults :
        LET jobs == viewed_jobs \cup {job_id}
            saved == _save_viewed_jobs(viewed_jobs_file, jobs, fault)
        IN  /\ viewed_jobs' = jobs
            /\ viewed_jobs_file' = saved.file
            /\ smart_filter' = [NoFilterCall EXCEPT
                    !.op = "mark_as_viewed", !.arg = job_id,
                    !.fault = fault, !.raised = saved.raised]
    /\ UNCHANGED <<rejected_companies, rejected_companies_file>>
    /\ UNCHANGED <<lateVars, retryVars, kbVars, fillVars, atsVars, submitVars,
                   sessionVars, priorityVars, applicantVars, csvVars,
                   preflightVars>>

call_is_viewed ==
    /\ \E job_id \in JobIds :
        smart_filter' = [NoFilterCall EXCEPT
            !.op = "is_viewed", !.arg = job_id,
            !.ret = <<is_viewed(viewed_jobs, job_id)>>]
    /\ UNCHANGED <<viewed_jobs, viewed_jobs_file, rejected_companies,
                   rejected_companies_file>>
    /\ UNCHANGED <<lateVars, retryVars, kbVars, fillVars, atsVars, submitVars,
                   sessionVars, priorityVars, applicantVars, csvVars,
                   preflightVars>>

\* add_rejected_company (lines 71-94): the record is updated before the
\* file is written.
add_rejected_company ==
    /\ \E company \in Companies, reason \in Reasons, fault \in IoFaults :
        LET companies == [rejected_companies EXCEPT
                ![company] = <<Rejected(rejected_companies, company, reason)>>]
            saved == _save_rejected_companies(rejected_companies_file,
                                              companies, fault)
        IN  /\ RejectionCount(rejected_companies, company) < MaxRejections
            /\ rejected_companies' = companies
            /\ rejected_companies_file' = saved.file
            /\ smart_filter' = [NoFilterCall EXCEPT
                    !.op = "add_rejected_company", !.arg = company,
                    !.fault = fault, !.raised = saved.raised]
    /\ UNCHANGED <<viewed_jobs, viewed_jobs_file>>
    /\ UNCHANGED <<lateVars, retryVars, kbVars, fillVars, atsVars, submitVars,
                   sessionVars, priorityVars, applicantVars, csvVars,
                   preflightVars>>

call_should_skip_company ==
    /\ \E company \in Companies, rejection_threshold \in Thresholds :
        smart_filter' = [NoFilterCall EXCEPT
            !.op = "should_skip_company", !.arg = company,
            !.rejection_threshold = rejection_threshold,
            !.ret = <<should_skip_company(rejected_companies, company,
                                          rejection_threshold)>>]
    /\ UNCHANGED <<viewed_jobs, viewed_jobs_file, rejected_companies,
                   rejected_companies_file>>
    /\ UNCHANGED <<lateVars, retryVars, kbVars, fillVars, atsVars, submitVars,
                   sessionVars, priorityVars, applicantVars, csvVars,
                   preflightVars>>

\* A sweep that forgets the rejections with the viewed jobs.
cleanup_everything(jobs, jobs_file, companies, days, fault) ==
    IF days > 0
    THEN LET saved == _save_viewed_jobs(jobs_file, {}, fault)
         IN  [jobs |-> {}, file |-> saved.file, companies |-> NoCompanies,
              raised |-> saved.raised]
    ELSE [jobs |-> jobs, file |-> jobs_file, companies |-> companies,
          raised |-> FALSE]

\* cleanup_old_data (lines 193-199): the viewed jobs, their file and the
\* companies afterwards, and whether the call raised.
cleanup_old_data(jobs, jobs_file, companies, days, fault) ==
    IF days > 0
    THEN LET saved == _save_viewed_jobs(jobs_file, {}, fault)
         IN  [jobs |-> {}, file |-> saved.file, companies |-> companies,
              raised |-> saved.raised]
    ELSE [jobs |-> jobs, file |-> jobs_file, companies |-> companies,
          raised |-> FALSE]

\* The `days` given to cleanup_old_data: the default and none.
SweepDays == {90, 0}

call_cleanup_old_data ==
    /\ \E days \in SweepDays, fault \in IoFaults :
        LET swept == cleanup_old_data(viewed_jobs, viewed_jobs_file,
                                      rejected_companies, days, fault)
        IN  /\ days = 0 => fault = "none"
            /\ viewed_jobs' = swept.jobs
            /\ viewed_jobs_file' = swept.file
            /\ rejected_companies' = swept.companies
            /\ smart_filter' = [NoFilterCall EXCEPT
                    !.op = "cleanup_old_data", !.days = days,
                    !.fault = fault, !.raised = swept.raised]
    /\ UNCHANGED rejected_companies_file
    /\ UNCHANGED <<lateVars, retryVars, kbVars, fillVars, atsVars, submitVars,
                   sessionVars, priorityVars, applicantVars, csvVars,
                   preflightVars>>

\* The priority of a job of a company, from the rejections recorded for it.
rank_company_job ==
    /\ \E company \in Companies, is_easy_apply \in BOOLEAN :
        smart_filter' = [NoFilterCall EXCEPT
            !.op = "calculate_job_priority", !.arg = company,
            !.ret = <<calculate_job_priority(<<5>>, <<0>>, is_easy_apply,
                        RejectionCount(rejected_companies, company))>>]
    /\ UNCHANGED <<viewed_jobs, viewed_jobs_file, rejected_companies,
                   rejected_companies_file>>
    /\ UNCHANGED <<lateVars, retryVars, kbVars, fillVars, atsVars, submitVars,
                   sessionVars, priorityVars, applicantVars, csvVars,
                   preflightVars>>

\* The texts of the applicant line of a job: the three forms, for a count.
Counts == {0, 7, 37, 50, 100, 1000}
PlainText(n) == Decimal(n) \o <<" ", "a", "p", "p", "l", "i", "c", "a", "n", "t", "s">>
OverText(n) == <<"O", "v", "e", "r", " ">> \o Decimal(n) \o <<" ", "a", "p", "p", "l", "i", "c", "a", "n", "t", "s">>
FirstText(n) == <<"B", "e", " ", "i", "n", " ", "t", "h", "e", " ", "f", "i", "r", "s", "t", " ">> \o Decimal(n) \o <<" ", "a", "p", "p", "l", "i", "c", "a", "n", "t", "s">>
\* Texts that hold no count.
CountlessTexts == { <<>>, <<"B", "e", " ", "a", "n", " ", "e", "a", "r", "l", "y", " ", "a", "p", "p", "l", "i", "c", "a", "n", "t">> }
Forms == {"plain", "over", "first", "none"}
TextsOf(form) ==
    CASE form = "plain" -> {PlainText(n) : n \in Counts}
      [] form = "over" -> {OverText(n) : n \in Counts}
      [] form = "first" -> {FirstText(n) : n \in Counts}
      [] OTHER -> CountlessTexts

\* The applicant line of a job is read while the jobs are filtered.
read_applicant_line ==
    /\ \E applicant_text \in {PlainText(37), OverText(100)} :
        smart_filter' = [NoFilterCall EXCEPT
            !.op = "extract_applicant_count",
            !.ret = extract_applicant_count(<<applicant_text>>).ret]
    /\ UNCHANGED <<viewed_jobs, viewed_jobs_file, rejected_companies,
                   rejected_companies_file>>
    /\ UNCHANGED <<lateVars, retryVars, kbVars, fillVars, atsVars, submitVars,
                   sessionVars, priorityVars, applicantVars, csvVars,
                   preflightVars>>

NextFilter ==
    \/ mark_as_viewed
    \/ call_is_viewed
    \/ add_rejected_company
    \/ call_should_skip_company
    \/ call_cleanup_old_data
    \/ rank_company_job
    \/ read_applicant_line

\* calculate_job_priority over its arguments.
NoPriorityCall == [called |-> FALSE, applicant_count |-> <<>>,
                   days_posted |-> <<>>, is_easy_apply |-> FALSE,
                   company_rejection_count |-> 0, ret |-> 0]

InitPriority == priority = NoPriorityCall

call_calculate_job_priority ==
    /\ \E applicant_count \in ApplicantCounts, days_posted \in DaysPosted,
          is_easy_apply \in BOOLEAN,
          company_rejection_count \in 0 .. MaxPriorRejections :
        priority' = [called |-> TRUE, applicant_count |-> applicant_count,
                     days_posted |-> days_posted,
                     is_easy_apply |-> is_easy_apply,
                     company_rejection_count |-> company_rejection_count,
                     ret |-> calculate_job_priority(applicant_count,
                                days_posted, is_easy_apply,
                                company_rejection_count)]
    /\ UNCHANGED <<lateVars, retryVars, kbVars, fillVars, atsVars, submitVars,
                   sessionVars, filterVars, applicantVars, csvVars,
                   preflightVars>>

NextPriority == call_calculate_job_priority

(***************************************************************************)
(* modules/smart_filters.py                                                *)
(***************************************************************************)

\* The XPath selectors tried for the element that shows the count
\* (lines 27-31).
applicant_selectors ==
    << ".//span[contains(text(), 'applicant')]",
       ".//span[contains(text(), 'applications')]",
       ".//li[contains(@class, 'job-details') and contains(., 'applicant')]" >>

\* Lines 33-41: the text of the element the first selector to locate one
\* gives, None (the empty sequence) when find_element raises for each.
\* `finds` holds the places of the selectors that locate the element.
RECURSIVE LocatedText(_, _, _)
LocatedText(finds, text, i) ==
    IF i > Len(applicant_selectors) THEN <<>>
    ELSE IF i \in finds THEN <<text>>
    ELSE LocatedText(finds, text, i + 1)

\* The body of the try (lines 22-60) for the text of the element.
ExtractFrom(applicant_text) ==
    IF applicant_text = <<>> \/ applicant_text = <<<<>>>> THEN <<>>
    ELSE LET over == SearchWordThenNumber(Over, Lower(applicant_text[1]))
         IN  IF Occurs(Over, Lower(applicant_text[1])) /\ over # <<>>
             THEN over
             ELSE SearchNumber(applicant_text[1])

\* An extraction that adds the buffer of the SmartFilter to "Over N".
filters_extract_with_buffer(finds, text) ==
    LET applicant_text == LocatedText(finds, text, 1)
    IN  IF applicant_text = <<>> \/ applicant_text = <<<<>>>>
        THEN [raised |-> FALSE, ret |-> <<>>]
        ELSE LET over == SearchWordThenNumber(Over, Lower(applicant_text[1]))
             IN  [raised |-> FALSE,
                  ret |-> IF Occurs(Over, Lower(applicant_text[1])) /\ over # <<>>
                          THEN <<over[1] + 50>>
                          ELSE SearchNumber(applicant_text[1])]

\* extract_applicant_count (lines 15-63): whether it raised and what it
\* returned. re.IGNORECASE matches as on the lowered text.
filters_extract_applicant_count(finds, text) ==
    [raised |-> FALSE, ret |-> ExtractFrom(LocatedText(finds, text, 1))]

\* The latest extraction: its site, the form and the count of the text, the
\* text, the selectors that located the element, and what was returned.
NoExtraction == [site |-> "none", form |-> "none", text |-> <<>>,
                 finds |-> {}, raised |-> FALSE, ret |-> <<>>]

InitApplicants == applicants = NoExtraction

\* SmartFilter.extract_applicant_count on a text, or on None.
call_extract_applicant_count ==
    /\ \E form \in Forms :
        \E applicant_text \in {<<text>> : text \in TextsOf(form)}
                                \cup (IF form = "none" THEN {<<>>} ELSE {}) :
            LET extracted == extract_applicant_count(applicant_text)
            IN  applicants' = [site |-> "smart_filter", form |-> form,
                               text |-> applicant_text, finds |-> {},
                               raised |-> extracted.raised,
                               ret |-> extracted.ret]
    /\ UNCHANGED <<lateVars, retryVars, kbVars, fillVars, atsVars, submitVars,
                   sessionVars, filterVars, priorityVars, csvVars,
                   preflightVars>>

\* smart_filters.extract_applicant_count on a page that shows the text.
call_filters_extract_applicant_count ==
    /\ \E form \in Forms :
        \E text \in TextsOf(form),
           finds \in SUBSET DOMAIN applicant_selectors :
            LET extracted == filters_extract_applicant_count(finds, text)
            IN  applicants' = [site |-> "smart_filters", form |-> form,
                               text |-> <<text>>, finds |-> finds,
                               raised |-> extracted.raised,
                               ret |-> extracted.ret]
    /\ UNCHANGED <<lateVars, retryVars, kbVars, fillVars, atsVars, submitVars,
                   sessionVars, filterVars, priorityVars, csvVars,
                   preflightVars>>

NextApplicants ==
    \/ call_extract_applicant_count
    \/ call_filters_extract_applicant_count

(***************************************************************************)
(* modules/external/external_links_manager.py and modules/metrics.py       *)
(***************************************************************************)

\* Bound of the model of the CSV logs: the calls that append to one log.
MaxRows == 3

\* A CSV file: whether it exists, and its rows. A row is the header or the
\* data row of a call, which carries the place of that call among the calls
\* on its log.
HeaderRow == [kind |-> "header", call |-> 0]
DataRow(call) == [kind |-> "data", call |-> call]
MissingLog == [exists |-> FALSE, rows |-> <<>>]

\* What can go wrong while a row is appended: the file cannot be read
\* (other than by being absent), it cannot be opened for appending, nothing
\* that was written reaches it, or an exception after writeheader() leaves
\* the with block, which closes the file.
CsvFaults == {"none", "read", "open", "write", "row"}

\* Lines 36-68 of external_links_manager.py and lines 67-116 of metrics.py:
\* the file afterwards. file_exists is whether the file could be opened for
\* reading; every exception is caught and logged.
append_row(file, call, fault) ==
    IF fault = "read" /\ file.exists THEN file
    ELSE IF fault = "open" THEN file
    ELSE LET file_exists == file.exists
             headed == IF file_exists THEN file.rows
                       ELSE Append(file.rows, HeaderRow)
         IN  IF fault = "write" THEN [exists |-> TRUE, rows |-> file.rows]
             ELSE IF fault = "row" THEN [exists |-> TRUE, rows |-> headed]
             ELSE [exists |-> TRUE, rows |-> Append(headed, DataRow(call))]

\* get_saved_links_count (lines 70-81 of external_links_manager.py).
get_saved_links_count(file, fault) ==
    IF ~file.exists THEN 0
    ELSE IF fault # "none" THEN 0
    ELSE Len(file.rows) - 1

\* The latest call on a log, the calls made so far on either log, and the
\* count the latest get_saved_links_count returned.
NoCsvCall == [op |-> "none", fault |-> "none", links |-> 0, metrics |-> 0,
              ret |-> 0]

\* Neither log exists before the first run.
InitCsv ==
    /\ links_file = MissingLog
    /\ metrics_file = MissingLog
    /\ csv = NoCsvCall

save_external_link ==
    /\ csv.links < MaxRows
    /\ \E fault \in CsvFaults :
        /\ links_file' = append_row(links_file, csv.links + 1, fault)
        /\ csv' = [csv EXCEPT !.op = "save_external_link", !.fault = fault,
                              !.links = @ + 1, !.ret = 0]
    /\ UNCHANGED metrics_file
    /\ UNCHANGED <<lateVars, retryVars, kbVars, fillVars, atsVars, submitVars,
                   sessionVars, filterVars, priorityVars, applicantVars,
                   preflightVars>>

save_session_metrics ==
    /\ csv.metrics < MaxRows
    /\ \E fault \in CsvFaults :
        /\ metrics_file' = append_row(metrics_file, csv.metrics + 1, fault)
        /\ csv' = [csv EXCEPT !.op = "save_session_metrics", !.fault = fault,
                              !.metrics = @ + 1, !.ret = 0]
    /\ UNCHANGED links_file
    /\ UNCHANGED <<lateVars, retryVars, kbVars, fillVars, atsVars, submitVars,
                   sessionVars, filterVars, priorityVars, applicantVars,
                   preflightVars>>

call_get_saved_links_count ==
    /\ \E fault \in {"none", "read"} :
        csv' = [csv EXCEPT !.op = "get_saved_links_count", !.fault = fault,
                           !.ret = get_saved_links_count(links_file, fault)]
    /\ UNCHANGED <<links_file, metrics_file>>
    /\ UNCHANGED <<lateVars, retryVars, kbVars, fillVars, atsVars, submitVars,
                   sessionVars, filterVars, priorityVars, applicantVars,
                   preflightVars>>

NextCsv ==
    \/ save_external_link
    \/ save_session_metrics
    \/ call_get_saved_links_count

(***************************************************************************)
(* modules/preflight_checks.py                                             *)
(***************************************************************************)

\* Strings are the sequences of their characters.
Pdf == <<".", "p", "d", "f">>
YOUR_API_KEY == <<"Y", "O", "U", "R", "_", "A", "P", "I", "_", "K", "E", "Y">>
YOUR_USERNAME == <<"Y", "O", "U", "R", "_", "U", "S", "E", "R", "N", "A", "M", "E">>
YOUR_PASSWORD == <<"Y", "O", "U", "R", "_", "P", "A", "S", "S", "W", "O", "R", "D">>

EndsWith(s, suffix) ==
    /\ Len(s) >= Len(suffix)
    /\ SubSeq(s, Len(s) - Len(suffix) + 1, Len(s)) = suffix

\* The configured resume: its path, whether a file is there, and its size in
\* bytes.
Resumes ==
    { [resume_path |-> <<>>, exists |-> FALSE, file_size |-> 0],
      [resume_path |-> <<"c", "v", "/", "r", "e", "s", "u", "m", "e", ".", "p", "d", "f">>, exists |-> FALSE, file_size |-> 0],
      [resume_path |-> <<"c", "v", "/", "r", "e", "s", "u", "m", "e", ".", "d", "o", "c", "x">>, exists |-> TRUE, file_size |-> 1000],
      [resume_path |-> <<"c", "v", "/", "r", "e", "s", "u", "m", "e", ".", "P", "d", "f">>, exists |-> TRUE, file_size |-> 0],
      [resume_path |-> <<"c", "v", "/", "r", "e", "s", "u", "m", "e", ".", "P", "d", "f">>, exists |-> TRUE, file_size |-> 1000],
      [resume_path |-> <<"c", "v", "/", "r", "e", "s", "u", "m", "e", ".", "p", "d", "f">>, exists |-> TRUE, file_size |-> 5 * 1024 * 1024],
      [resume_path |-> <<"c", "v", "/", "r", "e", "s", "u", "m", "e", ".", "p", "d", "f">>, exists |-> TRUE,
       file_size |-> 5 * 1024 * 1024 + 1] }
AiProviders == { <<>>, <<"g", "e", "m", "i", "n", "i">> }
ApiKeys == { <<>>, <<"Y", "O", "U", "R", "_", "A", "P", "I", "_", "K", "E", "Y", "_", "H", "E", "R", "E">>, <<"A", "I", "z", "a", "1", "7">> }
SearchTerms == { <<>>, <<<<"p", "y", "t", "h", "o", "n">>>>, <<<<"p", "y", "t", "h", "o", "n">>, <<" ">>>> }
Usernames == { <<>>, <<"a", "d", "a", "@", "e", "x", "a", "m", "p", "l", "e", ".", "c", "o", "m">> }
Passwords == { <<"Y", "O", "U", "R", "_", "P", "A", "S", "S", "W", "O", "R", "D">>, <<"h", "u", "n", "t", "e", "r", "2">> }
\* shutil.disk_usage("/"): the free bytes, or the empty sequence when it
\* raises.
MB == 1024 * 1024
FreeBytes == { <<>>, <<50 * MB>>, <<100 * MB - 1>>, <<100 * MB>>, <<200 * MB>> }

\* validate_resume_exists (lines 13-34): (is_valid, message).
validate_resume_exists(resume) ==
    IF resume.resume_path = <<>>
    THEN [is_valid |-> FALSE, msg |-> "Resume path is empty"]
    ELSE IF ~resume.exists
    THEN [is_valid |-> FALSE, msg |-> "Resume file not found"]
    ELSE IF ~EndsWith(Lower(resume.resume_path), Pdf)
    THEN [is_valid |-> FALSE, msg |-> "Resume must be a PDF file"]
    ELSE IF resume.file_size = 0
    THEN [is_valid |-> FALSE, msg |-> "Resume file is empty"]
    ELSE IF resume.file_size > 5 * 1024 * 1024
    THEN [is_valid |-> FALSE, msg |-> "Resume file is too large"]
    ELSE [is_valid |-> TRUE, msg |-> "Resume validated"]

\* validate_ai_credentials (lines 37-51).
validate_ai_credentials(use_ai, ai_provider, api_key) ==
    IF ~use_ai THEN [is_valid |-> TRUE, msg |-> "AI is disabled"]
    ELSE IF ai_provider = <<>>
    THEN [is_valid |-> FALSE, msg |-> "AI provider not specified"]
    ELSE IF api_key = <<>> \/ Occurs(YOUR_API_KEY, api_key)
    THEN [is_valid |-> FALSE, msg |-> "Invalid API key"]
    ELSE [is_valid |-> TRUE, msg |-> "AI configured"]

\* validate_search_terms (lines 54-65).
validate_search_terms(search_terms) ==
    IF search_terms = <<>>
    THEN [is_valid |-> FALSE, msg |-> "No search terms configured"]
    ELSE IF \E i \in DOMAIN search_terms : Strip(search_terms[i]) = <<>>
    THEN [is_valid |-> FALSE, msg |-> "Empty search term found"]
    ELSE [is_valid |-> TRUE, msg |-> "search term(s) configured"]

\* validate_credentials (lines 68-79).
validate_credentials(username, password) ==
    IF username = <<>> \/ Occurs(YOUR_USERNAME, username)
    THEN [is_valid |-> FALSE, msg |-> "LinkedIn username not configured"]
    ELSE IF password = <<>> \/ Occurs(YOUR_PASSWORD, password)
    THEN [is_valid |-> FALSE, msg |-> "LinkedIn password not configured"]
    ELSE [is_valid |-> TRUE, msg |-> "LinkedIn credentials configured"]

\* check_disk_space (lines 82-97), with the free bytes disk_usage reports.
check_disk_space(free, required_mb) ==
    IF free = <<>>
    THEN [is_valid |-> TRUE, msg |-> "Could not check disk space"]
    ELSE IF free[1] \div (1024 * 1024) < required_mb
    THEN [is_valid |-> FALSE, msg |-> "Low disk space"]
    ELSE [is_valid |-> TRUE, msg |-> "Disk space OK"]

\* The default of required_mb (line 82), which run_all_checks uses.
RequiredMb == 100

\* run_all_checks (lines 100-163): (all_passed, messages).
run_all_checks(resume, use_ai, ai_provider, api_key, search_terms, username, password, free) ==
    LET resume_check == validate_resume_exists(resume)
        ai_check == validate_ai_credentials(use_ai, ai_provider, api_key)
        terms_check == validate_search_terms(search_terms)
        credentials_check == validate_credentials(username, password)
        disk_check == check_disk_space(free, RequiredMb)
    IN  [all_passed |-> /\ resume_check.is_valid
                        /\ ~(~ai_check.is_valid /\ use_ai)
                        /\ terms_check.is_valid,
         messages |-> <<resume_check.msg, ai_check.msg, terms_check.msg,
                        credentials_check.msg, disk_check.msg>>]

\* The latest run_all_checks call: its arguments, the free bytes of the
\* disk, and what it returned.
NoPreflight == [called |-> FALSE,
                resume |-> [resume_path |-> <<>>, exists |-> FALSE,
                            file_size |-> 0],
                use_ai |-> FALSE, ai_provider |-> <<>>, api_key |-> <<>>,
                search_terms |-> <<>>, username |-> <<>>, password |-> <<>>,
                free |-> <<>>, all_passed |-> FALSE, messages |-> <<>>]

InitPreflight == preflight = NoPreflight

\* The checks are run once, before the session starts.
call_run_all_checks ==
    /\ ~preflight.called
    /\ \E resume \in Resumes, use_ai \in BOOLEAN, ai_provider \in AiProviders,
          api_key \in ApiKeys, search_terms \in SearchTerms,
          username \in Usernames, password \in Passwords, free \in FreeBytes :
        LET checked == run_all_checks(resume, use_ai, ai_provider, api_key,
                                      search_terms, username, password, free)
        IN  preflight' = [called |-> TRUE, resume |-> resume,
                          use_ai |-> use_ai, ai_provider |-> ai_provider,
                          api_key |-> api_key, search_terms |-> search_terms,
                          username |-> username, password |-> password,
                          free |-> free, all_passed |-> checked.all_passed,
                          messages |-> checked.messages]
    /\ UNCHANGED <<lateVars, retryVars, kbVars, fillVars, atsVars, submitVars,
                   sessionVars, filterVars, priorityVars, applicantVars,
                   csvVars>>

NextPreflight == call_run_all_checks

(***************************************************************************)
(* universal_form_filler.py: detect_field_type called by itself            *)
(***************************************************************************)

NoClassification ==
    [called |-> FALSE, field |-> <<>>, stale |-> FALSE, has_kb |-> FALSE,
     ats_platform |-> None, ret |-> None]

InitClassify == classified = NoClassification

\* The record of a detect_field_type call.
Classification(field, stale, has_kb, k, ats_platform) ==
    [called |-> TRUE, field |-> <<field>>, stale |-> stale, has_kb |-> has_kb,
     ats_platform |-> ats_platform,
     ret |-> detect_field_type(field, stale, has_kb, k, ats_platform)]

\* detect_field_type on a field whose name and id the knowledge base may
\* have been taught, with the knowledge base as it is.
classify_taught_field ==
    /\ \E field \in TaughtFields, stale \in BOOLEAN, has_kb \in BOOLEAN,
          ats_platform \in Platforms \cup {"unknown"} :
        classified' = Classification(field, stale, has_kb, knowledge, ats_platform)
    /\ UNCHANGED <<retryVars, kbVars, fillVars, atsVars, submitVars, sessionVars,
                   earlyStoreVars, tracker, cache, analytics>>

\* detect_field_type on a field whose only text is a pattern of the table.
classify_pattern_field ==
    /\ \E field \in PatternFields, stale \in BOOLEAN, has_kb \in BOOLEAN,
          ats_platform \in AskedPlatforms \cup {"unknown"} :
        classified' = Classification(field, stale, has_kb, knowledge, ats_platform)
    /\ UNCHANGED <<retryVars, kbVars, fillVars, atsVars, submitVars, sessionVars,
                   earlyStoreVars, tracker, cache, analytics>>

\* Bound of the classifier model: the learn_field_mapping calls that precede
\* a detect_field_type call.
MaxTaught == 2

\* learn_field_mapping, while the bound allows.
teach_field_mapping ==
    /\ TotalLearned(knowledge) < MaxTaught
    /\ learn_field_mapping

NextClassify == teach_field_mapping \/ classify_taught_field

NextPatterns == classify_pattern_field


(***************************************************************************)
(* modules/connection_tracker.py                                           *)
(***************************************************************************)

\* Bounds of the ConnectionTracker model: the requests recorded, and the
\* seconds that pass after the tracker was made.
MaxRequests == 3
MaxElapsed == 360

\* Seconds of a day, and the seconds that have to pass between two requests
\* (line 64).
SecondsPerDay == 86400
min_wait == 120

\* The instant the tracker is made at: four minutes before midnight.
TrackerStart == SecondsPerDay - 2 * min_wait

\* The daily_limit given to __init__.
DailyLimits == {1, 2}

\* datetime.now().date().isoformat() of an instant: dates are numbered, and
\* two dates are the same text exactly when their numbers are equal.
DateOf(t) == t \div SecondsPerDay

\* The dictionary of _load_data when there is no file (line 37).
NoConnections == [requests |-> <<>>, connected_profiles |-> <<>>]

\* The file tracker_file: missing, holding the JSON of a dictionary, or cut
\* short by a dump that raised.
MissingTracker == [state |-> "missing", json |-> NoConnections]
CorruptTracker == [state |-> "corrupt", json |-> NoConnections]

\* The faults of a write: none, or json.dump raising after the file was
\* opened (and emptied).
TrackerFaults == {"none", "transfer"}

\* _save_data (lines 39-43): the file afterwards and whether the call raised;
\* there is no handler.
tracker_save_data(data, fault) ==
    IF fault = "transfer" THEN [file |-> CorruptTracker, raised |-> TRUE]
    ELSE [file |-> [state |-> "json", json |-> data], raised |-> FALSE]

\* get_today_count (lines 45-48).
RECURSIVE CountOn(_, _, _)
CountOn(requests, date, i) ==
    IF i > Len(requests) THEN 0
    ELSE (IF requests[i].date = date THEN 1 ELSE 0) + CountOn(requests, date, i + 1)
get_today_count(data, clock) == CountOn(data.requests, DateOf(clock), 1)

\* A check that lets one request more than the limit through.
can_send_one_more(data, daily_limit, last_request_time, clock) ==
    IF get_today_count(data, clock) > daily_limit THEN FALSE
    ELSE IF last_request_time # <<>> /\ clock - last_request_time[1] < min_wait
    THEN FALSE
    ELSE TRUE

\* can_send_request (lines 50-70): the first member of the tuple returned.
can_send_request(data, daily_limit, last_request_time, clock) ==
    IF get_today_count(data, clock) >= daily_limit THEN FALSE
    ELSE IF last_request_time # <<>> /\ clock - last_request_time[1] < min_wait
    THEN FALSE
    ELSE TRUE

\* The profile the requests go to.
hr_link == "https://www.linkedin.com/in/hr"

\* The tracker: whether it has been made, its fields, the file, the clock,
\* the latest call with what it returned and, kept for the claims, whether
\* every record_request so far came right after a can_send_request that
\* returned True.
NoTrackerCall == [op |-> "none", clock |-> 0, ret |-> FALSE, raised |-> FALSE]

InitTracker ==
    tracker = [made |-> FALSE, daily_limit |-> 0, data |-> NoConnections,
               last_request_time |-> <<>>, file |-> MissingTracker,
               now |-> TrackerStart, last |-> NoTrackerCall, checked |-> TRUE]

\* __init__ (lines 16-27) with no file yet.
make_tracker ==
    /\ ~tracker.made
    /\ \E daily_limit \in DailyLimits :
        tracker' = [tracker EXCEPT !.made = TRUE, !.daily_limit = daily_limit,
                                   !.data = NoConnections]
    /\ UNCHANGED <<retryVars, kbVars, fillVars, atsVars, submitVars, sessionVars,
                   earlyStoreVars, classified, cache, analytics>>

call_can_send_request ==
    /\ tracker.made
    /\ tracker' = [tracker EXCEPT !.last =
            [op |-> "can_send_request", clock |-> tracker.now,
             ret |-> can_send_request(tracker.data, tracker.daily_limit,
                                      tracker.last_request_time, tracker.now),
             raised |-> FALSE]]
    /\ UNCHANGED <<retryVars, kbVars, fillVars, atsVars, submitVars, sessionVars,
                   earlyStoreVars, classified, cache, analytics>>

\* record_request (lines 84-113): the request is appended and the time kept
\* (lines 106-107); a successful one adds the profile, which writes the file
\* when the profile is new (lines 76-82, called at line 110); line 113 writes
\* the file. A write that raises ends the call.
record_request ==
    /\ tracker.made
    /\ Len(tracker.data.requests) < MaxRequests
    /\ \E success \in BOOLEAN, add_fault \in TrackerFaults,
          fault \in TrackerFaults :
        LET request == [timestamp |-> tracker.now, date |-> DateOf(tracker.now),
                        success |-> success]
            appended == [tracker.data EXCEPT !.requests = Append(@, request)]
            adds == success /\ \A i \in DOMAIN appended.connected_profiles :
                                  appended.connected_profiles[i] # hr_link
            added == IF adds
                     THEN [appended EXCEPT
                               !.connected_profiles = Append(@, hr_link)]
                     ELSE appended
            first == IF adds THEN tracker_save_data(added, add_fault)
                     ELSE [file |-> tracker.file, raised |-> FALSE]
            second == IF first.raised THEN first
                      ELSE tracker_save_data(added, fault)
        IN  /\ ~adds => add_fault = "none"
            /\ first.raised => fault = "none"
            /\ tracker' = [tracker EXCEPT
                    !.data = added,
                    !.last_request_time = <<tracker.now>>,
                    !.file = second.file,
                    !.checked = @ /\ tracker.last.op = "can_send_request"
                                  /\ tracker.last.ret,
                    !.last = [op |-> "record_request", clock |-> tracker.now,
                              ret |-> success, raised |-> second.raised]]
    /\ UNCHANGED <<retryVars, kbVars, fillVars, atsVars, submitVars, sessionVars,
                   earlyStoreVars, classified, cache, analytics>>

\* Time passes between two calls: a second less than two minutes, or two
\* minutes.
TrackerTick ==
    /\ \E seconds \in {min_wait - 1, min_wait} :
        /\ tracker.now + seconds <= TrackerStart + MaxElapsed
        /\ tracker' = [tracker EXCEPT !.now = @ + seconds]
    /\ UNCHANGED <<retryVars, kbVars, fillVars, atsVars, submitVars, sessionVars,
                   earlyStoreVars, classified, cache, analytics>>

NextTracker ==
    \/ make_tracker
    \/ call_can_send_request
    \/ record_request
    \/ TrackerTick

(***************************************************************************)
(* modules/ai/ai_cache.py                                                  *)
(***************************************************************************)

\* Bound of the cache model: the hours that pass.
MaxCacheHours == 24

HoursPerDay == 24

\* The questions and contexts asked about, as <<question, context>>, every
\* text the sequence of its characters.
CachePairs ==
    { << <<"a">>, <<"c">> >>,
      << <<"a">>, <<"b", "|", "c">> >>,
      << <<" ", "A", " ">>, <<"B", "|", "c", "\n">> >>,
      << <<"a", "|", "b">>, <<"c">> >> }
Responses == {"Yes", "No"}
AgeLimits == {0, 1}

\* question.lower().strip() and context.lower().strip() (line 22).
NormalText(text) == Strip(Lower(text))
NormalPair(pair) == <<NormalText(pair[1]), NormalText(pair[2])>>
NormalPairs == { NormalPair(pair) : pair \in CachePairs }

\* _get_cache_key (lines 20-23): the text that is hashed; the MD5 digests of
\* two texts are equal exactly when the texts are.
_get_cache_key(question, context) ==
    NormalText(question) \o <<"|">> \o NormalText(context)

\* The file CACHE_FILE: missing, holding the JSON of a dictionary from keys
\* to entries, or cut short by a dump that raised.
EmptyCache == [key \in {} |-> <<>>]
MissingCache == [state |-> "missing", cache |-> EmptyCache]
CorruptCache == [state |-> "corrupt", cache |-> EmptyCache]

\* age.days (lines 44-45): the whole days between two instants in hours.
AgeDays(clock, timestamp) == (clock - timestamp) \div HoursPerDay

\* get_cached_response (lines 26-57): the response returned, None being the
\* empty sequence; every exception is caught (line 55).
get_cached_response(file, question, context, max_age_days, clock, fault) ==
    IF file.state = "missing" THEN <<>>
    ELSE IF fault # "none" \/ file.state = "corrupt" THEN <<>>
    ELSE IF _get_cache_key(question, context) \notin DOMAIN file.cache THEN <<>>
    ELSE LET entry == file.cache[_get_cache_key(question, context)]
         IN  IF AgeDays(clock, entry.timestamp) <= max_age_days
             THEN <<entry.response>> ELSE <<>>

\* The faults of cache_response: none, reading the file raises, opening it
\* for writing raises, json.dump raises.
CacheFaults == {"none", "read", "open", "transfer"}

\* cache_response (lines 60-90): the file afterwards and the value returned.
\* The entry keeps the question as given and a digest of the context, which
\* stands here as the context itself.
cache_response(file, question, response, context, clock, fault) ==
    IF file.state = "corrupt" \/ (file.state = "json" /\ fault = "read")
       \/ fault = "open"
    THEN [file |-> file, ret |-> FALSE]
    ELSE IF fault = "transfer" THEN [file |-> CorruptCache, ret |-> FALSE]
    ELSE LET key == _get_cache_key(question, context)
             entry == [question |-> question, response |-> response,
                       context_hash |-> context, timestamp |-> clock]
         IN  [file |-> [state |-> "json",
                        cache |-> [k \in DOMAIN file.cache \cup {key} |->
                                      IF k = key THEN entry ELSE file.cache[k]]],
              ret |-> TRUE]

\* The latest call: its operation, its arguments, its fault, its time and
\* what it returned (ret for the truth value of cache_response, found for the
\* response of get_cached_response).
NoCacheCall ==
    [op |-> "none", pair |-> <<>>, response |-> "", max_age_days |-> 0,
     fault |-> "none", clock |-> 0, ret |-> FALSE, found |-> <<>>]

\* The file, the clock in hours, the latest call and, kept for the claims,
\* for every question and context (lower-cased and stripped) the response
\* and the time of the latest cache_response that stored one for them.
InitCache ==
    cache = [file |-> MissingCache, now |-> 0, last |-> NoCacheCall,
             stored |-> [p \in NormalPairs |-> <<>>]]

call_cache_response ==
    /\ \E pair \in CachePairs, response \in Responses, fault \in CacheFaults :
        LET cached == cache_response(cache.file, pair[1], response, pair[2],
                                     cache.now, fault)
        IN  /\ (cache.file.state = "missing" => fault # "read")
            /\ cache' = [cache EXCEPT
                    !.file = cached.file,
                    !.stored = IF cached.ret
                               THEN [@ EXCEPT ![NormalPair(pair)] =
                                        <<[response |-> response,
                                           timestamp |-> cache.now]>>]
                               ELSE @,
                    !.last = [NoCacheCall EXCEPT
                                !.op = "cache_response", !.pair = pair,
                                !.response = response, !.fault = fault,
                                !.clock = cache.now, !.ret = cached.ret]]
    /\ UNCHANGED <<retryVars, kbVars, fillVars, atsVars, submitVars, sessionVars,
                   earlyStoreVars, classified, tracker, analytics>>

call_get_cached_response ==
    /\ \E pair \in CachePairs, max_age_days \in AgeLimits,
          fault \in {"none", "read"} :
        /\ (cache.file.state = "missing" => fault = "none")
        /\ cache' = [cache EXCEPT
                !.last = [NoCacheCall EXCEPT
                            !.op = "get_cached_response", !.pair = pair,
                            !.max_age_days = max_age_days, !.fault = fault,
                            !.clock = cache.now,
                            !.found = get_cached_response(cache.file, pair[1],
                                          pair[2], max_age_days, cache.now,
                                          fault)]]
    /\ UNCHANGED <<retryVars, kbVars, fillVars, atsVars, submitVars, sessionVars,
                   earlyStoreVars, classified, tracker, analytics>>

\* Time passes between two calls: an hour less than a day, or a day.
CacheTick ==
    /\ \E hours \in {HoursPerDay - 1, HoursPerDay} :
        /\ cache.now + hours <= MaxCacheHours
        /\ cache' = [cache EXCEPT !.now = @ + hours]
    /\ UNCHANGED <<retryVars, kbVars, fillVars, atsVars, submitVars, sessionVars,
                   earlyStoreVars, classified, tracker, analytics>>

NextCache ==
    \/ call_cache_response
    \/ call_get_cached_response
    \/ CacheTick

(***************************************************************************)
(* modules/analytics.py                                                    *)
(***************************************************************************)

\* Bounds of the Analytics model: the applications recorded and the days
\* that pass.
MaxApplications == 2
MaxDays == 1

\* The applications recorded: the company, the ats_platform and the
\* time_filter of each (None being the empty sequence).
Jobs ==
    { [company |-> "Acme", ats_platform |-> <<"greenhouse">>,
       time_filter |-> <<"r3600">>],
      [company |-> "Acme", ats_platform |-> <<>>, time_filter |-> <<>>],
      [company |-> "Globex", ats_platform |-> <<"greenhouse">>,
       time_filter |-> <<>>] }

\* datetime.now().date().isoformat() on the days of the model.
Dates == <<"2026-10-31", "2026-11-01", "2026-11-02">>

\* _init_data_structure (lines 35-43).
EmptyStats == [key \in {} |-> [total |-> 0, successful |-> 0, failed |-> 0]]
NoApplications ==
    [applications |-> <<>>, daily_stats |-> EmptyStats, ats_stats |-> EmptyStats,
     company_stats |-> EmptyStats, time_filter_stats |-> EmptyStats]

\* The file metrics_file: missing, holding the JSON of the data, or cut
\* short by a dump that raised.
MissingMetrics == [state |-> "missing", json |-> NoApplications]
CorruptMetrics == [state |-> "corrupt", json |-> NoApplications]
AnalyticsFaults == {"none", "transfer"}

\* _save_data (lines 45-49): the file afterwards and whether the call
\* raised; there is no handler.
analytics_save_data(data, fault) ==
    IF fault = "transfer" THEN [file |-> CorruptMetrics, raised |-> TRUE]
    ELSE [file |-> [state |-> "json", json |-> data], raised |-> FALSE]

\* A bucket update that leaves failures out of the total.
BumpSuccessesOnly(stats, key, success) ==
    LET old == IF key \in DOMAIN stats THEN stats[key]
               ELSE [total |-> 0, successful |-> 0, failed |-> 0]
        new == IF success
               THEN [old EXCEPT !.total = @ + 1, !.successful = @ + 1]
               ELSE [old EXCEPT !.failed = @ + 1]
    IN  [k \in DOMAIN stats \cup {key} |-> IF k = key THEN new ELSE stats[k]]

\* One of the four updates of _update_stats (lines 97-104, 110-115, 119-126
\* and 131-136): the bucket is made when it is missing, its total and one
\* of successful and failed are incremented.
Bump(stats, key, success) ==
    LET old == IF key \in DOMAIN stats THEN stats[key]
               ELSE [total |-> 0, successful |-> 0, failed |-> 0]
        new == IF success
               THEN [old EXCEPT !.total = @ + 1, !.successful = @ + 1]
               ELSE [old EXCEPT !.total = @ + 1, !.failed = @ + 1]
    IN  [k \in DOMAIN stats \cup {key} |-> IF k = key THEN new ELSE stats[k]]

\* _update_stats (lines 93-140): the ATS and the time-filter buckets are
\* updated only for a value that is not None or empty.
_update_stats(data, app_data) ==
    [data EXCEPT
        !.daily_stats = Bump(@, app_data.date, app_data.success),
        !.ats_stats = IF app_data.ats_platform # <<>>
                      THEN Bump(@, app_data.ats_platform[1], app_data.success)
                      ELSE @,
        !.company_stats = Bump(@, app_data.company, app_data.success),
        !.time_filter_stats =
            IF app_data.time_filter # <<>>
            THEN Bump(@, app_data.time_filter[1], app_data.success)
            ELSE @]

RECURSIVE Successes(_, _)
Successes(applications, i) ==
    IF i > Len(applications) THEN 0
    ELSE (IF applications[i].success THEN 1 ELSE 0)
         + Successes(applications, i + 1)

\* successful / total * 100, as the fraction <<successful * 100, total>>,
\* and 0 as <<0, 1>>.
Rate(successful, total) ==
    IF total > 0 THEN <<successful * 100, total>> ELSE <<0, 1>>

\* stats.get(key, {}) and the two .get of lines 159-161.
BucketRate(stats, key) ==
    IF key[1] \in DOMAIN stats
    THEN Rate(stats[key[1]].successful, stats[key[1]].total)
    ELSE Rate(0, 0)

\* get_success_rate (lines 142-176); `key` is None (the empty sequence) or a
\* text, which counts as false when it is empty.
get_success_rate(data, category, key) ==
    IF category = "overall"
    THEN Rate(Successes(data.applications, 1), Len(data.applications))
    ELSE IF key = <<>> \/ key = <<"">> THEN Rate(0, 0)
    ELSE IF category = "ats" THEN BucketRate(data.ats_stats, key)
    ELSE IF category = "company" THEN BucketRate(data.company_stats, key)
    ELSE IF category = "time_filter" THEN BucketRate(data.time_filter_stats, key)
    ELSE Rate(0, 0)

\* The categories and keys asked about, as <<category, key>>.
RateCalls ==
    { <<"overall", <<>>>>, <<"ats", <<"greenhouse">>>>, <<"ats", <<"lever">>>>,
      <<"company", <<"Acme">>>>, <<"company", <<"">>>>,
      <<"time_filter", <<"r3600">>>>, <<"time_filter", <<>>>>,
      <<"daily", <<"2026-10-31">>>> }

NoAnalyticsCall ==
    [op |-> "none", category |-> "", key |-> <<>>, ret |-> <<0, 1>>,
     raised |-> FALSE]

\* __init__ (lines 15-23) with no file yet; `today` counts the days since.
InitAnalytics ==
    analytics = [data |-> NoApplications, file |-> MissingMetrics, today |-> 0,
                 last |-> NoAnalyticsCall]

\* record_application (lines 51-91): the entry is appended, the statistics
\* are updated and the file is written.
record_application ==
    /\ Len(analytics.data.applications) < MaxApplications
    /\ \E job \in Jobs, success \in BOOLEAN, fault \in AnalyticsFaults :
        LET application_data ==
                [date |-> Dates[analytics.today + 1], company |-> job.company,
                 ats_platform |-> job.ats_platform, success |-> success,
                 time_filter |-> job.time_filter]
            appended == [analytics.data EXCEPT
                            !.applications = Append(@, application_data)]
            updated == _update_stats(appended, application_data)
            saved == analytics_save_data(updated, fault)
        IN  analytics' = [analytics EXCEPT
                !.data = updated, !.file = saved.file,
                !.last = [NoAnalyticsCall EXCEPT !.op = "record_application",
                                                 !.raised = saved.raised]]
    /\ UNCHANGED <<retryVars, kbVars, fillVars, atsVars, submitVars, sessionVars,
                   earlyStoreVars, classified, tracker, cache>>

call_get_success_rate ==
    /\ \E call \in RateCalls :
        analytics' = [analytics EXCEPT
            !.last = [NoAnalyticsCall EXCEPT
                        !.op = "get_success_rate", !.category = call[1],
                        !.key = call[2],
                        !.ret = get_success_rate(analytics.data, call[1],
                                                 call[2])]]
    /\ UNCHANGED <<retryVars, kbVars, fillVars, atsVars, submitVars, sessionVars,
                   earlyStoreVars, classified, tracker, cache>>

\* A day passes between two calls.
NextDay ==
    /\ analytics.today < MaxDays /\ analytics.today + 1 < Len(Dates)
    /\ analytics' = [analytics EXCEPT !.today = @ + 1]
    /\ UNCHANGED <<retryVars, kbVars, fillVars, atsVars, submitVars, sessionVars,
                   earlyStoreVars, classified, tracker, cache>>

NextAnalytics ==
    \/ record_application
    \/ call_get_success_rate
    \/ NextDay

Init ==
    /\ InitRetry /\ InitKB /\ InitFill /\ InitAts /\ InitSubmit /\ InitSession
    /\ InitFilter /\ InitPriority /\ InitApplicants /\ InitCsv /\ InitPreflight
    /\ InitClassify /\ InitTracker /\ InitCache /\ InitAnalytics

NextRetry ==
    \/ call_retry_with_backoff
    \/ retry_with_backoff
    \/ call_retry_click
    \/ retry_click

SpecRetry == Init /\ [][NextRetry]_vars

SpecKB == Init /\ [][NextKB]_vars

SpecFill == Init /\ [][NextFill]_vars

SpecAts == Init /\ [][NextAts]_vars

SpecSubmit == Init /\ [][NextSubmit]_vars

SpecSession == Init /\ [][NextSession]_vars

SpecFilter == Init /\ [][NextFilter]_vars

SpecPriority == Init /\ [][NextPriority]_vars

SpecApplicants == Init /\ [][NextApplicants]_vars

SpecCsv == Init /\ [][NextCsv]_vars

SpecPreflight == Init /\ [][NextPreflight]_vars

SpecClassify == Init /\ [][NextClassify]_vars

SpecPatterns == Init /\ [][NextPatterns]_vars

SpecTracker == Init /\ [][NextTracker]_vars

SpecCache == Init /\ [][NextCache]_vars

SpecAnalytics == Init /\ [][NextAnalytics]_vars

(***************************************************************************)
(* Claims about the retry handler (checked under SpecRetry).               *)
(***************************************************************************)

Direct == rc.pc = "idle"
Ended(f) == f.pc \in {"returned", "raised"}
AllCallsFailedRetryably(f) ==
    \A i \in 1 .. Len(f.events) : f.events[i] \notin {"call_ok", "call_uncaught"}

\* The events of a run whose n calls all failed retryably: each failure but
\* the last is followed by the callback (when there is one) and the sleep.
RECURSIVE FailingRun(_, _)
FailingRun(n, cb) ==
    IF n = 1 THEN <<"call_failed">>
    ELSE (IF cb THEN <<"call_failed", "on_retry", "sleep">>
                ELSE <<"call_failed", "sleep">>) \o FailingRun(n - 1, cb)

\* C1: when func fails with a retryable exception on every call (and the
\* callback, if any, returns), an ended run of retry_with_backoff has invoked
\* func max_retries + 1 times, has called on_retry and slept max_retries
\* times, each before the next invocation and none after the last, and has
\* raised the exception of the last invocation; it has not returned.
C1_RetryExhaustion ==
    (Ended(rwb) /\ AllCallsFailedRetryably(rwb) /\ rwb.on_retry # "raises") =>
        /\ rwb.pc = "raised"
        /\ Calls(rwb) = rwb.max_retries + 1
        /\ Len(rwb.delays) = rwb.max_retries
        /\ rwb.events = FailingRun(rwb.max_retries + 1, rwb.on_retry = "ok")
        /\ rwb.raised = [kind |-> rwb.raised.kind, call |-> rwb.max_retries + 1]
        /\ rwb.raised = rwb.last_exception
        /\ rwb.raised.kind \in Raisable

C1_Witness ==
    /\ Direct /\ rwb.pc = "raised" /\ AllCallsFailedRetryably(rwb)
    /\ rwb.max_retries = 3 /\ rwb.base_delay = 2 * TicksPerSecond
    /\ rwb.on_retry = "ok" /\ Calls(rwb) = 4 /\ rwb.raised.call = 4

\* C2: every delay slept lies in [base_delay * 2^k, 1.1 * base_delay * 2^k]
\* for its attempt index k, and each delay of a run is strictly greater than
\* the one before it.
C2_DelayBoundsAndGrowth ==
    /\ \A i \in 1 .. Len(rwb.delays) :
          /\ rwb.base_delay * Pow2(i - 1) <= rwb.delays[i]
          /\ 10 * rwb.delays[i] <= 11 * rwb.base_delay * Pow2(i - 1)
    /\ \A i \in 1 .. Len(rwb.delays) - 1 : rwb.delays[i + 1] > rwb.delays[i]

\* The closest two delays can get: full jitter first, none after.
C2_Witness ==
    /\ Len(rwb.delays) >= 3
    /\ 10 * rwb.delays[1] = 11 * rwb.base_delay
    /\ rwb.delays[2] = 2 * rwb.base_delay
    /\ 10 * rwb.delays[2] < 11 * rwb.base_delay * 2

ClickFinished == rc.pc \in {"done", "raised"}
InOrder(log) == \A i \in 1 .. Len(log) : log[i].selector = i

\* C3 as stated: False is returned only after every selector has had its full
\* budget of max_retries + 1 failed click attempts, whatever the failure.
C3_Original ==
    (rc.pc = "done" /\ rc.result = "False") =>
        /\ Len(rc.log) = rc.n
        /\ \A i \in 1 .. rc.n : rc.log[i].clicks = rwb.max_retries + 1

\* C3 (amended): selectors are tried in list order; True is returned at the
\* first click that succeeds, with no click after it; False is returned only
\* after every selector has either failed max_retries + 1 times with a
\* WebDriverException or ended at its first failure of another kind, which
\* is not retried; retry_click does not raise.
C3_ClickFallback ==
    /\ InOrder(rc.log)
    /\ rc.pc # "raised"
    /\ rc.pc = "loop" => (Len(rc.log) = rc.sel - 1
                          /\ \A i \in 1 .. Len(rc.log) : rc.log[i].ended # "clicked")
    /\ (rc.pc = "done" /\ rc.result = "True") =>
          /\ Len(rc.log) = rc.sel
          /\ rc.log[rc.sel].ended = "clicked"
          /\ rwb.events[Len(rwb.events)] = "call_ok"
          /\ \A i \in 1 .. rc.sel - 1 : rc.log[i].ended # "clicked"
    /\ (rc.pc = "done" /\ rc.result = "False") =>
          /\ Len(rc.log) = rc.n
          /\ \A i \in 1 .. rc.n :
                \/ /\ Caught(rc.log[i].ended, {"WebDriverException"})
                   /\ rc.log[i].clicks = rwb.max_retries + 1
                \/ /\ rc.log[i].ended \in Raisable
                   /\ ~Caught(rc.log[i].ended, {"WebDriverException"})
                   /\ rc.log[i].clicks \in 1 .. rwb.max_retries + 1
    /\ rc.pc = "done" => rc.result \in {"True", "False"}

C3_Witness ==
    /\ rc.pc = "done" /\ rc.result = "False" /\ rc.n = 3 /\ rwb.max_retries = 2
    /\ rc.log[1].ended = "TimeoutException" /\ rc.log[1].clicks = 3
    /\ rc.log[2].ended = "ConnectionError" /\ rc.log[2].clicks = 1
    /\ rc.log[3].ended = "TimeoutException"

(***************************************************************************)
(* Claims about the knowledge base (checked under SpecKB).                 *)
(***************************************************************************)

Count(k, id, t) ==
    IF id \in DOMAIN k.field_mappings /\ t \in Keys(k.field_mappings[id])
    THEN Value(k.field_mappings[id], t) ELSE 0
Taught(k, id) ==
    IF id \in DOMAIN k.field_mappings THEN Keys(k.field_mappings[id]) ELSE {}
\* The place of a type among the types taught for id, in the order taught.
Place(k, id, t) ==
    CHOOSE i \in 1 .. Len(k.field_mappings[id]) : k.field_mappings[id][i][1] = t
HasSpecific(k, p, id) ==
    /\ p \in DOMAIN k.ats_specific_mappings
    /\ id \in DOMAIN k.ats_specific_mappings[p]
LearnStep == last'.op = "learn"

\* C4 as stated: in every reachable state, learn_field_mapping(id, t, p)
\* followed at once by get_field_type(id, p) returns t.
C4_Original ==
    last.op = "learn" =>
        get_field_type(knowledge, last.field_identifier, last.ats_platform)
            = last.field_type

\* Before the call, nothing stands in the way of t being the answer for
\* (id, p): the platform holds no other type for id (p known), or no type
\* taught earlier for id has t's new count and none taught later exceeds it.
RoundTrips(k, id, t, p) ==
    IF p # "unknown"
    THEN ~HasSpecific(k, p, id) \/ k.ats_specific_mappings[p][id] = t
    ELSE \A u \in Taught(k, id) \ {t} :
            /\ Count(k, id, u) <= Count(k, id, t) + 1
            /\ Count(k, id, u) = Count(k, id, t) + 1 =>
                  (t \in Taught(k, id) /\ Place(k, id, t) < Place(k, id, u))

\* C4 (amended): learn_field_mapping(id, t, p) followed at once by
\* get_field_type(id, p) returns t exactly when, before the call, the platform
\* p held no other type for id (p known) or, for p = "unknown", no other type
\* of id outvotes t after the call; it does for an identifier not taught before.
C4_RoundTrip ==
    [][LearnStep =>
        LET id == last'.field_identifier
            t == last'.field_type
            p == last'.ats_platform
        IN  /\ (get_field_type(knowledge', id, p) = t) <=> RoundTrips(knowledge, id, t, p)
            /\ (Taught(knowledge, id) = {} /\ ~HasSpecific(knowledge, p, id))
                  => get_field_type(knowledge', id, p) = t]_vars

\* A type was taught for an identifier and platform that held another type.
C4_Witness ==
    /\ last.op = "learn" /\ last.ats_platform = "greenhouse"
    /\ HasSpecific(knowledge, "greenhouse", last.field_identifier)
    /\ get_field_type(knowledge, last.field_identifier, "greenhouse")
         # last.field_type

\* The general answer for id is a type of maximal count, and among the types
\* of maximal count the one taught first.
MajorityVote(k) ==
    \A id \in KbIdentifiers :
        LET ret == get_field_type(k, id, "unknown") IN
        IF Taught(k, id) = {} THEN ret = None
        ELSE /\ ret \in Taught(k, id)
             /\ \A u \in Taught(k, id) :
                   /\ Count(k, id, u) <= Count(k, id, ret)
                   /\ Count(k, id, u) = Count(k, id, ret)
                         => Place(k, id, ret) <= Place(k, id, u)

\* Teaching t for id raises the count of t under id by one and no other count.
RaisesOne ==
    \A id \in KbIdentifiers, u \in KbTypes :
        Count(knowledge', id, u) = Count(knowledge, id, u) +
            (IF id = last'.field_identifier /\ u = last'.field_type THEN 1 ELSE 0)

\* C5 as stated: teaching t2 switches the general answer from the leader t1
\* to t2 exactly when the count of t2 becomes strictly greater than t1's.
C5_Original ==
    [][LearnStep =>
        LET id == last'.field_identifier
            t2 == last'.field_type
            t1 == get_field_type(knowledge, id, "unknown")
        IN  (t1 # None /\ t1 # t2) =>
               ((get_field_type(knowledge', id, "unknown") = t2)
                   <=> Count(knowledge', id, t2) > Count(knowledge', id, t1))]_vars

\* C5 (amended): the general lookup returns a type whose count is maximal,
\* the one taught first among equals; teaching t2 raises only t2's count, by
\* one; the answer switches from the leader t1 to t2 exactly when the count
\* of t2 becomes strictly greater than t1's, or equal to it with t2 taught
\* before t1, and otherwise stays t1.
C5_MajorityVote ==
    [][/\ MajorityVote(knowledge')
       /\ LearnStep =>
            LET id == last'.field_identifier
                t2 == last'.field_type
                t1 == get_field_type(knowledge, id, "unknown")
                ret == get_field_type(knowledge', id, "unknown")
            IN  /\ RaisesOne
                /\ (t1 # None /\ t1 # t2) =>
                      /\ ret \in {t1, t2}
                      /\ (ret = t2) <=>
                            \/ Count(knowledge', id, t2) > Count(knowledge', id, t1)
                            \/ /\ Count(knowledge', id, t2) = Count(knowledge', id, t1)
                               /\ Place(knowledge', id, t2) < Place(knowledge', id, t1)]_vars

\* The leader changed hands on a tie: the type taught first caught up.
C5_Witness ==
    /\ last.op = "learn"
    /\ \E u \in KbTypes \ {last.field_type} :
          /\ Count(knowledge, last.field_identifier, u)
               = Count(knowledge, last.field_identifier, last.field_type)
          /\ Count(knowledge, last.field_identifier, u) = 2
    /\ get_field_type(knowledge, last.field_identifier, "unknown") = last.field_type

\* C6: for a known platform p, get_field_type(id, p) returns the platform's
\* entry for id whenever there is one, whatever the general counts of id are,
\* and the general majority vote only when there is none.
C6_PlatformPrecedence ==
    /\ \A p \in AskedPlatforms, id \in KbIdentifiers :
          get_field_type(knowledge, id, p) =
              IF HasSpecific(knowledge, p, id)
              THEN knowledge.ats_specific_mappings[p][id]
              ELSE get_field_type(knowledge, id, "unknown")
    /\ (last.op = "get" /\ last.ats_platform # "unknown") =>
          last.ret = IF HasSpecific(knowledge, last.ats_platform, last.field_identifier)
                     THEN knowledge.ats_specific_mappings[last.ats_platform][last.field_identifier]
                     ELSE get_field_type(knowledge, last.field_identifier, "unknown")

\* The platform's entry was returned against the general majority.
C6_Witness ==
    /\ last.op = "get" /\ last.ats_platform = "greenhouse"
    /\ HasSpecific(knowledge, "greenhouse", last.field_identifier)
    /\ last.ret = "email"
    /\ get_field_type(knowledge, last.field_identifier, "unknown") = "first_name"
    /\ Count(knowledge, last.field_identifier, "first_name") = 2

\* C7: no call lowers a count of the general mapping or removes an identifier,
\* a type under an identifier or a platform's entry, and get_field_type leaves
\* the knowledge in memory and the file as they were.
C7_AppendOnly ==
    [][/\ \A id \in KbIdentifiers, u \in KbTypes :
             Count(knowledge, id, u) <= Count(knowledge', id, u)
       /\ DOMAIN knowledge.field_mappings \subseteq DOMAIN knowledge'.field_mappings
       /\ \A id \in KbIdentifiers : Taught(knowledge, id) \subseteq Taught(knowledge', id)
       /\ \A p \in AskedPlatforms, id \in KbIdentifiers :
             HasSpecific(knowledge, p, id) => HasSpecific(knowledge', p, id)
       /\ last'.op = "get" => (knowledge' = knowledge /\ disk' = disk)]_vars

\* A lookup after an identifier was taught a second type.
C7_Witness ==
    /\ last.op = "get" /\ last.ret = "email"
    /\ Count(knowledge, last.field_identifier, "email") = 2
    /\ Count(knowledge, last.field_identifier, "first_name") = 1
    /\ HasSpecific(knowledge, "greenhouse", last.field_identifier)

\* C8: whenever learn_field_mapping has returned, the file holds exactly the
\* knowledge in memory.
C8_FlushedAfterLearn ==
    last.op = "learn" => disk = [state |-> "json", json |-> knowledge]

(***************************************************************************)
(* Claims about the field classifier (checked under SpecFill).             *)
(***************************************************************************)

\* An iteration of the loop over the input fields has been recorded.
Stepped == fill.pc = "loop" /\ fill.i > 1

TableOrder == <<"first_name", "last_name", "full_name", "email", "phone",
                "linkedin", "website", "github">>
IsSubstring(p, text) ==
    \E a \in 0 .. Len(text) - Len(p) : SubSeq(text, a + 1, a + Len(p)) = p
TypesMatching(text) ==
    {i \in 1 .. Len(TableOrder) :
        \E j \in 1 .. Len(STANDARD_FIELD_PATTERNS[i][2]) :
            IsSubstring(STANDARD_FIELD_PATTERNS[i][2][j], text)}
EarliestMatching(text) ==
    IF TypesMatching(text) = {} THEN "unknown"
    ELSE TableOrder[CHOOSE i \in TypesMatching(text) :
                        \A k \in TypesMatching(text) : i <= k]
EarliestMatchingOf == [f \in Fields |-> EarliestMatching(combined_text(f))]

\* C10: with no knowledge-base hit, detect_field_type returns the first type
\* of the order first_name, last_name, full_name, email, phone, linkedin,
\* website, github that has a pattern occurring in the lowercased text of
\* name, id, placeholder and label, and "unknown" when no type has one.
C10_FirstMatchingType ==
    /\ Len(STANDARD_FIELD_PATTERNS) = Len(TableOrder)
    /\ (Stepped /\ fill.step.known = None /\ ~fill.step.stale) =>
          fill.step.detected = EarliestMatchingOf[fill.step.field]

\* A text with patterns of first_name, full_name and email resolved to the
\* earliest of them.
C10_Witness ==
    /\ Stepped /\ fill.step.known = None /\ ~fill.step.stale
    /\ fill.step.field.name = "Email" /\ fill.step.field.id = "fname"
    /\ TypesMatching(combined_text(fill.step.field)) = {1, 3, 4}
    /\ fill.step.detected = "first_name"

(***************************************************************************)
(* Claims about the AI fallback and the Greenhouse strategy (checked under *)
(* SpecFill).                                                              *)
(***************************************************************************)

\* C11: whatever the classification service answers, the type that
\* classify_field_with_gemini returns is a tag of the allow-list ("unknown"
\* when the call fails or the answer is no tag of the list).
C11_AllowListed ==
    (Stepped /\ fill.step.ai_called) => fill.step.field_type \in GeminiCategories

\* C13: fill_greenhouse_application makes no click on a submit control,
\* whatever the page holds and whatever fails; it reports "Form filled
\* successfully" only when a submit control was found, and then as a success.
C13_FillNeverSubmits ==
    /\ fill.clicks = 0
    /\ fill.result = "filled" => (fill.located /\ Success(fill.result))

\* Two fields were filled, a submit control was found and nothing was clicked.
C13_Witness ==
    /\ fill.pc = "done" /\ fill.result = "filled" /\ fill.filled_count = 2
    /\ fill.located /\ fill.clicks = 0

\* C14: fill_greenhouse_application, which always returns, reports a failure
\* only when no field was filled and no submit control was found, and reports
\* a success whenever a field was filled or a submit control was found.
C14_FailureOnlyWhenNothing ==
    fill.pc = "done" =>
        /\ fill.result \in {"filled", "partial", "failed", "error"}
        /\ ~Success(fill.result) => (fill.filled_count = 0 /\ ~fill.located)
        /\ (fill.filled_count > 0 \/ fill.located) => Success(fill.result)

\* A loop iteration has just run on a field.
Iterated == fill.pc = "loop" /\ fill'.i = fill.i + 1

\* The texts a field can be known by.
Identifiers(field) ==
    {field.name, field.id, field.placeholder, field.label} \ {""}

C16_FillNeedsValue ==
    Stepped =>
        LET t == fill.step.field_type
            has_value == t \in {"first_name", "email", "phone"}
        IN  /\ fill.step.filled => (fill.step.fill_called /\ has_value)
            /\ (fill.step.fill_called /\ ~has_value) =>
                  /\ ~fill.step.filled /\ ~fill.step.raised
                  /\ ~fill.step.cleared /\ ~fill.step.typed
            /\ t = "unknown" => ~fill.step.fill_called

\* fill_field was called for full_name, whose value in the profile is empty.
C16_Witness ==
    /\ Stepped /\ fill.step.fill_called /\ fill.step.field_type = "full_name"
    /\ user_data["full_name"] = ""
    /\ ~fill.step.filled /\ ~fill.step.cleared /\ ~fill.step.typed

UrlMatches(url) ==
    {t \in DOMAIN ATS_PATTERNS :
        \E j \in DOMAIN ATS_PATTERNS[t][2] :
            IsSubstring(ATS_PATTERNS[t][2][j], Lower(Chars[url]))}
UrlMatchesOf == [url \in Urls |-> UrlMatches(url)]
DomMatches(dom) ==
    {t \in DOMAIN ATS_DOM_SIGNATURES :
        \E j \in DOMAIN ATS_DOM_SIGNATURES[t][2] :
            dom[ATS_DOM_SIGNATURES[t][2][j]] = "some"}
Least(S) == CHOOSE i \in S : \A k \in S : i <= k

\* C12: detect_ats_platform returns the first platform of ATS_PATTERNS with a
\* fragment occurring in the lowercased URL, and then probes no selector;
\* without such a platform it returns the first platform of
\* ATS_DOM_SIGNATURES with a signature that matched an element, a signature
\* whose probe raised counting as one that matched nothing; and it returns
\* "unknown" when neither gives a platform.
C12_UrlThenDom ==
    (detection.called /\ ~detection.raised) =>
        LET by_url == UrlMatchesOf[detection.current_url]
            by_dom == DomMatches(detection.dom)
        IN  IF by_url # {}
            THEN /\ detection.ret = ATS_PATTERNS[Least(by_url)][1]
                 /\ detection.probed = <<>>
            ELSE IF by_dom # {}
            THEN /\ detection.ret = ATS_DOM_SIGNATURES[Least(by_dom)][1]
                 /\ detection.probed # <<>>
            ELSE detection.ret = "unknown"

\* A greenhouse URL on a page where only a signature of lever matches.
C12_Witness ==
    /\ detection.called /\ detection.ret = "greenhouse"
    /\ detection.current_url = "https://boards.greenhouse.io/acme/jobs/17"
    /\ DomMatches(detection.dom) = {2}
    /\ detection.probed = <<>>

(***************************************************************************)
(* Claims about the submit operation (checked under SpecSubmit).          *)
(***************************************************************************)

\* C17: submit_greenhouse_application clicks at most one control; having
\* clicked, it returns (True, "Application submitted") when a success phrase
\* occurs in the page source and (True, unverified) when none does; it
\* returns False only when it clicked no control.
C17_AtMostOneClick ==
    /\ Len(submit.clicked) <= 1
    /\ submit.pc = "done" =>
          /\ submit.success <=> submit.clicked # <<>>
          /\ submit.success =>
                (submit.message = "Application submitted"
                    <=> VerifiedOf[submit.page_source])

(***************************************************************************)
(* Claims about the checkpoint store (checked under SpecSession).         *)
(***************************************************************************)

\* C19: as long as no I/O fault has occurred, load_checkpoint returns the
\* data of the latest save_checkpoint since the latest clear_checkpoint,
\* exactly as it was given, and None when there is none; and
\* clear_checkpoint returns True.
C19_LastWriteWins ==
    ~session.faulted =>
        /\ session.op = "load" => session.loaded = session.latest
        /\ session.op = "clear" => (session.ret /\ session.latest = <<>>)

\* C20: should_resume returns True exactly when the checkpoint file exists,
\* can be read as JSON, has a timestamp, and that timestamp is less than 24
\* hours before the time of the call.
C20_ResumeIffFresh ==
    session.op = "should_resume" =>
        (session.ret <=>
            /\ checkpoint_file.state = "json"
            /\ session.fault = "none"
            /\ checkpoint_file.timestamp # <<>>
            /\ session.clock - checkpoint_file.timestamp[1] < 24)

\* A checkpoint of exactly 24 hours is not resumed from.
C20_Witness ==
    /\ session.op = "should_resume" /\ session.fault = "none"
    /\ checkpoint_file.state = "json" /\ checkpoint_file.timestamp # <<>>
    /\ session.clock - checkpoint_file.timestamp[1] = 24
    /\ ~session.ret

\* C21: a save_checkpoint whose write meets an I/O fault returns False and
\* leaves the checkpoint as it was: load_checkpoint and should_resume answer
\* after it what they answered before it.
C21_FailedSaveIsNoOp ==
    [][(session'.op = "save" /\ session'.fault # "none" /\ now' = now) =>
          /\ ~session'.ret
          /\ load_checkpoint(checkpoint_file', "none")
                = load_checkpoint(checkpoint_file, "none")
          /\ should_resume(checkpoint_file', now, "none")
                = should_resume(checkpoint_file, now, "none")]_vars

(***************************************************************************)
(* Claims about the SmartFilter (checked under SpecFilter).                *)
(***************************************************************************)

\* C22: a fault of the file write during mark_as_viewed or
\* add_rejected_company does not reach the caller: the call returns.
C22_WriteFaultsContained ==
    (smart_filter.op \in {"mark_as_viewed", "add_rejected_company"}
        /\ smart_filter.fault # "none") => ~smart_filter.raised

\* C23: should_skip_company(company, threshold) returns True exactly when
\* the company has a record whose rejection_count is at least the threshold:
\* with threshold 2, two rejections are skipped and one is not, and a company
\* without a record is never skipped.
C23_SkipIffThresholdReached ==
    smart_filter.op = "should_skip_company" =>
        LET record == rejected_companies[smart_filter.arg]
            skipped == smart_filter.ret = <<TRUE>>
        IN  /\ smart_filter.ret \in {<<TRUE>>, <<FALSE>>}
            /\ skipped <=>
                  /\ record # <<>>
                  /\ record[1].rejection_count
                        >= smart_filter.rejection_threshold
            /\ record = <<>> => ~skipped
            /\ smart_filter.rejection_threshold = 2 =>
                  /\ (record # <<>> /\ record[1].rejection_count = 2)
                        => skipped
                  /\ (record # <<>> /\ record[1].rejection_count = 1)
                        => ~skipped

\* The count has just reached the threshold of 2.
C23_Witness ==
    /\ smart_filter.op = "should_skip_company"
    /\ smart_filter.rejection_threshold = 2
    /\ rejected_companies[smart_filter.arg] # <<>>
    /\ rejected_companies[smart_filter.arg][1].rejection_count = 2
    /\ smart_filter.ret = <<TRUE>>

C30_ViewedGrowsAndIsPersisted ==
    [][/\ smart_filter'.op # "cleanup_old_data" =>
              viewed_jobs \subseteq viewed_jobs'
       /\ smart_filter'.op = "mark_as_viewed" =>
              /\ is_viewed(viewed_jobs', smart_filter'.arg)
              /\ viewed_jobs_file'.state = "json"
              /\ viewed_jobs_file'.viewed_job_ids = viewed_jobs']_vars

(***************************************************************************)
(* Claims about the priority score (checked under SpecPriority).           *)
(***************************************************************************)

\* The terms of the score as the contract gives them.
ApplicantTerm(applicant_count) ==
    IF applicant_count = <<>> THEN 0
    ELSE IF applicant_count[1] < 10 THEN 20
    ELSE IF applicant_count[1] \in 10 .. 49 THEN 10
    ELSE IF applicant_count[1] > 200 THEN -20
    ELSE 0
DaysTerm(days_posted) ==
    IF days_posted = <<>> THEN 0
    ELSE IF days_posted[1] = 0 THEN 15
    ELSE IF days_posted[1] \in 1 .. 2 THEN 10
    ELSE IF days_posted[1] \in 3 .. 7 THEN 5
    ELSE IF days_posted[1] > 30 THEN -10
    ELSE 0
EasyTerm(is_easy_apply) == IF is_easy_apply THEN 10 ELSE 0
Clamp(x, low, high) == IF x < low THEN low ELSE IF x > high THEN high ELSE x

\* C25: calculate_job_priority returns 50 + A + D + E - 5 * rejections
\* clamped to [0, 100], with A, D and E as above; the result lies in
\* [0, 100], one more rejection never raises it, and it is 95 for 5
\* applicants, 0 days, easy apply and no rejection.
C25_PriorityFormula ==
    priority.called =>
        /\ priority.ret
              = Clamp(50 + ApplicantTerm(priority.applicant_count)
                         + DaysTerm(priority.days_posted)
                         + EasyTerm(priority.is_easy_apply)
                         - 5 * priority.company_rejection_count, 0, 100)
        /\ priority.ret \in 0 .. 100
        /\ calculate_job_priority(priority.applicant_count,
                priority.days_posted, priority.is_easy_apply,
                priority.company_rejection_count + 1) <= priority.ret
        /\ (/\ priority.applicant_count = <<5>>
            /\ priority.days_posted = <<0>>
            /\ priority.is_easy_apply
            /\ priority.company_rejection_count = 0) => priority.ret = 95

\* A score below 0 is returned as 0.
C25_Witness ==
    /\ priority.called
    /\ priority.applicant_count = <<201>> /\ priority.days_posted = <<31>>
    /\ ~priority.is_easy_apply /\ priority.company_rejection_count = 6
    /\ priority.ret = 0

(***************************************************************************)
(* Claims about the applicant count (checked under SpecApplicants).        *)
(***************************************************************************)

\* C26: for a text "Be in the first N applicants",
\* SmartFilter.extract_applicant_count returns N / 2, rounded down.
C26_FirstIsHalved ==
    \A n \in Counts :
        (applicants.site = "smart_filter"
            /\ applicants.text = <<FirstText(n)>>)
        => applicants.ret = <<n \div 2>>

\* C27: for a text "N applicants" both sites return N; for "Over N
\* applicants" SmartFilter.extract_applicant_count returns N + 50 and
\* smart_filters.extract_applicant_count returns N, both at least N; for a
\* text without a count both return None; neither raises.
C27_ExtractsCount ==
    /\ ~applicants.raised
    /\ applicants.form = "none" /\ applicants.site # "none"
          => applicants.ret = <<>>
    /\ \A n \in Counts :
          /\ (applicants.text = <<PlainText(n)>>
                /\ (applicants.site = "smart_filters" => applicants.finds # {}))
             => applicants.ret = <<n>>
          /\ (applicants.text = <<OverText(n)>>
                /\ (applicants.site = "smart_filters" => applicants.finds # {}))
             => /\ applicants.ret # <<>>
                /\ applicants.ret[1] >= n
                /\ applicants.ret[1]
                      = IF applicants.site = "smart_filter" THEN n + 50 ELSE n

\* The last selector locates the element, which reads "Over 100 applicants".
C27_Witness ==
    /\ applicants.site = "smart_filters" /\ applicants.finds = {3}
    /\ applicants.text = <<OverText(100)>>
    /\ applicants.ret = <<100>>

(***************************************************************************)
(* Claims about the CSV logs (checked under SpecCsv).                      *)
(***************************************************************************)

\* The rows are one header followed by data rows in the order of their calls.
HeaderThenRows(rows) ==
    /\ rows[1] = HeaderRow
    /\ \A i \in 2 .. Len(rows) : rows[i].kind = "data"
    /\ \A i \in 2 .. Len(rows) - 1 : rows[i].call < rows[i + 1].call

\* C28: a log that save_external_link (save_session_metrics) has appended a
\* row to holds exactly one header row, as its first row, and after it the
\* data rows in call order.
C28_HeaderOnceAndFirst ==
    /\ links_file.rows # <<>> => HeaderThenRows(links_file.rows)
    /\ metrics_file.rows # <<>> => HeaderThenRows(metrics_file.rows)

(***************************************************************************)
(* Claims about the pre-flight checks (checked under SpecPreflight).       *)
(***************************************************************************)

ResumeFault ==
    \/ preflight.resume.resume_path = <<>>
    \/ ~preflight.resume.exists
    \/ ~EndsWith(Lower(preflight.resume.resume_path), Pdf)
    \/ preflight.resume.file_size = 0
    \/ preflight.resume.file_size > 5 * 1024 * 1024
NoSearchTerms == preflight.search_terms = <<>>
LowDisk ==
    /\ preflight.free # <<>>
    /\ preflight.free[1] < 100 * 1024 * 1024
AiConfigured ==
    /\ preflight.ai_provider # <<>>
    /\ preflight.api_key # <<>>
    /\ ~Occurs(YOUR_API_KEY, preflight.api_key)

\* C29: run_all_checks returns all_passed = False whenever the resume is
\* missing or invalid, no search terms are configured or the free disk space
\* is below the required 100 MB; it returns True only when none of these
\* holds and AI, when enabled, is configured.
C29_FatalFaultsBlock ==
    preflight.called =>
        /\ (ResumeFault \/ NoSearchTerms \/ LowDisk) => ~preflight.all_passed
        /\ preflight.all_passed =>
              /\ ~ResumeFault /\ ~NoSearchTerms /\ ~LowDisk
              /\ preflight.use_ai => AiConfigured

\* C31: in every detect_field_type call on a readable field that has both a
\* name and an id, with a knowledge base and a known platform, when the
\* knowledge base holds a platform-specific entry for the id and only a
\* general entry for the name, the call returns the platform-specific type
\* of the id.
C31_PlatformTypeOfIdWins ==
    [][LET call == classified'
           field == call.field[1]
           specific == knowledge.ats_specific_mappings
       IN  ( /\ knowledge' = knowledge
             /\ call.called /\ call.has_kb /\ ~call.stale
             /\ field.name # "" /\ field.id # ""
             /\ call.ats_platform # "unknown"
             /\ call.ats_platform \in DOMAIN specific
             /\ field.id \in DOMAIN specific[call.ats_platform]
             /\ field.name \notin DOMAIN specific[call.ats_platform]
             /\ GeneralType(knowledge, field.name) # None )
           => call.ret = specific[call.ats_platform][field.id]]_vars

\* C40: a readable field whose only text is a pattern listed under a type of
\* STANDARD_FIELD_PATTERNS (as its name, with empty id, placeholder and label,
\* and no knowledge-base entry) is classified as that type.
C40_PatternsSelfConsistent ==
    \A place \in PatternPlaces :
        ( /\ classified.called /\ ~classified.stale
          /\ classified.field = <<PatternField(place)>>
          /\ KnownType(classified.has_kb, knowledge, PatternField(place),
                       classified.ats_platform) = None )
        => classified.ret = STANDARD_FIELD_PATTERNS[place[1]][1]

\* C39: a platform-specific mapping is first-write-wins: in every step, each
\* (platform, identifier) pair that has a stored type keeps it, whatever type
\* is taught for the pair, and get_field_type(identifier, platform) keeps
\* returning it.
C39_FirstWriteWins ==
    [][\A p \in DOMAIN knowledge.ats_specific_mappings :
         \A id \in DOMAIN knowledge.ats_specific_mappings[p] :
            /\ p \in DOMAIN knowledge'.ats_specific_mappings
            /\ id \in DOMAIN knowledge'.ats_specific_mappings[p]
            /\ knowledge'.ats_specific_mappings[p][id]
                   = knowledge.ats_specific_mappings[p][id]
            /\ get_field_type(knowledge', id, p)
                   = knowledge.ats_specific_mappings[p][id]]_vars

\* A different type was taught for the pair more often than the first one,
\* so that the general vote is for the new type, and the pair keeps the first.
C39_Witness ==
    /\ last.op = "learn" /\ last.ats_platform = "greenhouse"
    /\ last.field_identifier \in DOMAIN knowledge.ats_specific_mappings["greenhouse"]
    /\ knowledge.ats_specific_mappings["greenhouse"][last.field_identifier]
           # last.field_type
    /\ GeneralType(knowledge, last.field_identifier) = last.field_type
    /\ Value(knowledge.field_mappings[last.field_identifier], last.field_type) >= 2
    /\ get_field_type(knowledge, last.field_identifier, "greenhouse")
           # last.field_type

\* C32: load_checkpoint returns the stored payload whenever the file holds a
\* readable checkpoint, whatever the checkpoint's age; should_resume returns
\* False for a checkpoint of 24 hours or more, which load_checkpoint still
\* returns.
C32_LoadIgnoresAge ==
    /\ ( /\ session.op = "load" /\ session.fault = "none"
         /\ checkpoint_file.state = "json" )
       => session.loaded = checkpoint_file.data
    /\ ( /\ session.op = "should_resume"
         /\ checkpoint_file.state = "json"
         /\ session.clock - checkpoint_file.timestamp[1] >= StaleHours )
       => /\ ~session.ret
          /\ load_checkpoint(checkpoint_file, "none") = checkpoint_file.data

\* A checkpoint older than 24 hours is loaded.
C32_Witness ==
    /\ session.op = "load" /\ session.fault = "none"
    /\ checkpoint_file.state = "json"
    /\ session.clock - checkpoint_file.timestamp[1] > StaleHours
    /\ session.loaded = checkpoint_file.data
    /\ session.loaded # <<>>
    /\ ~should_resume(checkpoint_file, session.clock, "none")

\* C33: only failures that match `exceptions` are retried: an exception of
\* func that does not match is raised from that invocation, with no further
\* invocation, sleep or on_retry call; a func that returns ends the run at
\* once; every exception that was caught matches `exceptions`.
C33_OnlyRetryableRetried ==
    /\ \A i \in 1 .. Len(rwb.events) :
          /\ rwb.events[i] = "call_uncaught" =>
                /\ i = Len(rwb.events)
                /\ rwb.pc = "raised"
                /\ rwb.raised.kind \in Raisable
                /\ Classes(rwb.raised.kind) \cap rwb.exceptions = {}
                /\ rwb.raised.call = Calls(rwb)
          /\ rwb.events[i] = "call_ok" =>
                /\ i = Len(rwb.events)
                /\ rwb.pc = "returned"
    /\ rwb.last_exception.kind # "none" =>
          Classes(rwb.last_exception.kind) \cap rwb.exceptions # {}
    /\ ( /\ rwb.pc = "raised" /\ rwb.raised.kind \in Raisable
         /\ Classes(rwb.raised.kind) \cap rwb.exceptions = {} )
       => rwb.events[Len(rwb.events)] = "call_uncaught"

\* After a failure that was retried, with attempts left, func raises an
\* exception that does not match and the run ends with it.
C33_Witness ==
    /\ rwb.pc = "raised"
    /\ rwb.events[Len(rwb.events)] = "call_uncaught"
    /\ Calls(rwb) = 2 /\ rwb.attempt = 1 /\ rwb.max_retries = 3
    /\ rwb.on_retry = "ok"
    /\ rwb.raised = [kind |-> "ConnectionError", call |-> 2]
    /\ rwb.exceptions = {"WebDriverException"}
    /\ rwb.last_exception.kind = "TimeoutException"

\* C34: a fault on one field is not fatal to the fill: every iteration of
\* the loop, raising or not, goes on to the next enumerated field and adds
\* one to the filled count exactly when fill_field returned True; after the
\* last field the upload step and then the submit-location step are taken,
\* which leave the count as it is and end with a result of their own.
C34_FieldFaultsSkipped ==
    [][/\ (fill.pc = "loop" /\ fill.i <= fill.n) =>
            /\ fill'.pc = "loop"
            /\ fill'.i = fill.i + 1 /\ fill'.n = fill.n
            /\ fill'.filled_count =
                   fill.filled_count + (IF fill'.step.typed THEN 1 ELSE 0)
       /\ (fill.pc = "loop" /\ fill.i > fill.n) =>
            /\ fill'.pc = "submit"
            /\ fill'.filled_count = fill.filled_count
       /\ fill.pc = "submit" =>
            /\ fill'.pc = "done"
            /\ fill'.result \in {"filled", "partial", "failed"}
            /\ fill'.filled_count = fill.filled_count]_vars

\* The first of two fields was filled and raised while its mapping was being
\* taught: it is counted and the loop is at the second field.
C34_Witness ==
    /\ fill.pc = "loop" /\ fill.n = 2 /\ fill.i = 2
    /\ fill.step.raised /\ fill.step.typed
    /\ fill.filled_count = 1

\* C35: cleanup_old_data(days) removes only entries older than `days` days:
\* a job id marked as viewed by the call right before a sweep with days > 0,
\* which is younger than that, is still viewed after the sweep, and the
\* sweep leaves the rejection data of that run as it is.
C35_SweepKeepsYoung ==
    [][( /\ smart_filter.op = "mark_as_viewed"
         /\ smart_filter'.op = "cleanup_old_data"
         /\ smart_filter'.days > 0 )
       => /\ smart_filter.arg \in viewed_jobs'
          /\ rejected_companies' = rejected_companies]_vars

RecordedOn(date) ==
    Cardinality({i \in DOMAIN tracker.data.requests :
                    tracker.data.requests[i].date = date})

\* C36: can_send_request returns False exactly when the requests recorded
\* today, successful or not, number daily_limit or more, or fewer than 120
\* seconds have passed since the last record_request of this process; and
\* while every record_request came right after a can_send_request that
\* returned True, no day has more than daily_limit requests recorded and
\* two consecutive requests are at least 120 seconds apart.
C36_LimitAndSpacing ==
    /\ tracker.last.op = "can_send_request" =>
          ( tracker.last.ret <=>
              ~ \/ RecordedOn(DateOf(tracker.last.clock)) >= tracker.daily_limit
                \/ /\ tracker.last_request_time # <<>>
                   /\ tracker.last.clock - tracker.last_request_time[1] < 120 )
    /\ tracker.checked =>
          /\ \A i \in DOMAIN tracker.data.requests :
                RecordedOn(tracker.data.requests[i].date) <= tracker.daily_limit
          /\ \A i \in 1 .. Len(tracker.data.requests) - 1 :
                tracker.data.requests[i + 1].timestamp
                    - tracker.data.requests[i].timestamp >= 120

\* Two minutes after a failed request that used up the day's limit, the
\* check refuses on the limit alone.
C36_Witness ==
    /\ tracker.checked
    /\ tracker.data.requests # <<>>
    /\ ~tracker.data.requests[Len(tracker.data.requests)].success
    /\ tracker.last.op = "can_send_request" /\ ~tracker.last.ret
    /\ tracker.last.clock - tracker.last_request_time[1] >= 120
    /\ RecordedOn(DateOf(tracker.last.clock)) = tracker.daily_limit

\* What C37 has a get_cached_response call return, from the latest
\* cache_response that stored a response for the same question and context.
C37_Expected(c) ==
    LET call == c.last
        entry == c.stored[NormalPair(call.pair)]
    IN  IF /\ c.file.state = "json" /\ call.fault = "none"
           /\ entry # <<>>
           /\ AgeDays(call.clock, entry[1].timestamp) <= call.max_age_days
        THEN <<entry[1].response>>
        ELSE <<>>

\* C37: get_cached_response returns the response stored by the latest
\* cache_response for the same question and context, compared lower-cased
\* and stripped, iff that entry's age in whole days is at most max_age_days,
\* and None in every other case; it leaves the cache file as it is.
C37_CachedIffFresh ==
    [][( /\ cache'.last.op = "get_cached_response"
         /\ cache'.last # cache.last )
       => /\ cache'.file = cache.file
          /\ cache'.last.found = C37_Expected(cache')]_vars

Consistent(stats) ==
    \A key \in DOMAIN stats :
        stats[key].total = stats[key].successful + stats[key].failed

RECURSIVE SumOfTotals(_, _)
SumOfTotals(stats, keys) ==
    IF keys = {} THEN 0
    ELSE LET key == CHOOSE k \in keys : TRUE
         IN  stats[key].total + SumOfTotals(stats, keys \ {key})

LoggedFor(applications, company) ==
    Cardinality({i \in DOMAIN applications : applications[i].company = company})

\* What C38 has the rate of a category and key be: that of the log entries
\* the category and key select, and 0 when there are none.
EntriesOf(applications, category, key) ==
    {i \in DOMAIN applications :
        CASE category = "overall" -> TRUE
          [] category = "ats" -> applications[i].ats_platform = key
          [] category = "company" -> <<applications[i].company>> = key
          [] category = "time_filter" -> applications[i].time_filter = key
          [] category = "daily" -> <<applications[i].date>> = key
          [] OTHER -> FALSE}

\* C38: after every record_application from an empty store, each bucket of
\* the four statistics has total = successful + failed, the daily totals sum
\* to the number of logged applications, each company bucket's total is the
\* number of log entries of that company, the earlier log entries are as
\* they were, and every get_success_rate is between 0 and 100 and is 0 for a
\* bucket that is empty or unknown.
C38_AggregatesConsistent ==
    [][LET data == analytics'.data
           log == data.applications
           call == analytics'.last
       IN  /\ Consistent(data.daily_stats) /\ Consistent(data.ats_stats)
           /\ Consistent(data.company_stats)
           /\ Consistent(data.time_filter_stats)
           /\ SumOfTotals(data.daily_stats, DOMAIN data.daily_stats) = Len(log)
           /\ \A i \in DOMAIN log : log[i].company \in DOMAIN data.company_stats
           /\ \A company \in DOMAIN data.company_stats :
                 data.company_stats[company].total = LoggedFor(log, company)
           /\ Len(log) >= Len(analytics.data.applications)
           /\ \A i \in DOMAIN analytics.data.applications :
                 log[i] = analytics.data.applications[i]
           /\ call.op = "get_success_rate" =>
                 /\ call.ret[2] > 0
                 /\ 0 <= call.ret[1] /\ call.ret[1] <= 100 * call.ret[2]
                 /\ EntriesOf(log, call.category, call.key) = {}
                       => call.ret[1] = 0]_vars

\* Of two applications made to one company on two days, one succeeded, and
\* the company's rate is asked for.
C38_Witness ==
    /\ Len(analytics.data.applications) = 2
    /\ analytics.data.applications[1].date # analytics.data.applications[2].date
    /\ "Acme" \in DOMAIN analytics.data.company_stats
    /\ analytics.data.company_stats["Acme"] =
           [total |-> 2, successful |-> 1, failed |-> 1]
    /\ analytics.last.op = "get_success_rate"
    /\ analytics.last.category = "company" /\ analytics.last.key = <<"Acme">>
    /\ analytics.last.ret = <<100, 2>>

====
